---- MODULE Spec2Model ----
(***************************************************************************)
(* arti-vault: a caching, validating proxy in front of a Maven repository. *)
(*                                                                         *)
(* The model covers the repository cache coordinator                       *)
(* (RemoteMavenRepo::get_artifact), the in-memory metadata store           *)
(* (DummyRemoteRepoMetadataStore), the validating downloader and its body  *)
(* stream, and the in-memory blob storage (TransientBlobStorage) that      *)
(* main.rs wires into the coordinator.                                     *)
(*                                                                         *)
(* Every await point and every lock acquisition of get_artifact is a step  *)
(* of its own, so that concurrent calls interleave as the multi-threaded   *)
(* tokio runtime lets them.                                                *)
(***************************************************************************)
EXTENDS Integers, Sequences, FiniteSets, TLC

(***************************************************************************)
(* Bounds of the model                                                     *)
(***************************************************************************)
\* number of get_artifact calls over a behaviour
MaxCalls == 4
\* number of FsBlobStorage operations (insert, get, delete, fsck) over a behaviour
MaxFsOps == 2
\* number of advances of the system clock over a behaviour of FsBlobStorage
MaxFsTicks == 1
\* number of clock advances over a behaviour
MaxTicks == 2
\* length of an upstream body, one byte per chunk
MaxBodyLen == 1
\* number of chunks of a body that a consumer of one validating stream reads
MaxChunks == 2
\* number of calls of the plugin operations of the metadata store over a behaviour
MaxStoreOps == 4
\* number of recorded versions of an artifact
MaxVersions == 2

\* the request handlers that run concurrently
Procs == {1, 2}
\* artifact references (MavenArtifactRef); the calls of one behaviour all
\* ask for the same artifact, which is the case every index entry is about
Refs == {"r1"}
\* byte values an upstream body is made of
Bytes == {7}
\* byte values of the chunks that one validating stream carries
StreamBytes == {7, 8}

(***************************************************************************)
(* Time.  An Instant is a number of half seconds, so that durations that   *)
(* are not whole seconds exist; Duration::as_secs truncates.               *)
(***************************************************************************)
UnitsPerSec == 2
\* remote_repo.rs:215, the retry interval in seconds
RetryWindowSecs == 300
\* the amounts by which the clock advances in one step: the smallest unit,
\* and the retry interval and one unit more
ClockSteps == {1, RetryWindowSecs * UnitsPerSec + 1}

\* Option<T>: None is the empty sequence, Some(x) the one-element sequence
None == << >>
Some(x) == << x >>
IsSome(o) == Len(o) = 1
Unwrap(o) == o[1]

\* Instant::checked_duration_since(..).unwrap_or(Duration::from_secs(0))
checked_duration_since(later, earlier) ==
    IF later >= earlier THEN later - earlier ELSE 0

\* Duration::as_secs
as_secs(d) == d \div UnitsPerSec

(***************************************************************************)
(* Digests.  SHA-1 and MD5 are modelled as ideal hash functions: the       *)
(* digest of a byte string is the byte string tagged with the algorithm,   *)
(* so two digests are equal exactly when the hashed bytes are equal.       *)
(***************************************************************************)
Sha1Digest(bytes) == [alg |-> "sha1", of |-> bytes]
Md5Digest(bytes) == [alg |-> "md5", of |-> bytes]

RECURSIVE SeqsUpTo(_)
SeqsUpTo(n) ==
    IF n = 0 THEN { << >> }
    ELSE LET shorter == SeqsUpTo(n - 1)
         IN  shorter \cup { Append(s, b) : s \in { t \in shorter : Len(t) = n - 1 }, b \in Bytes }

Bodies == SeqsUpTo(MaxBodyLen)
\* the byte strings whose digests the upstream advertises in its headers
AdvertisedBodies == SeqsUpTo(1)

(***************************************************************************)
(* The upstream's answer to one GET: the response head client.request      *)
(* resolves to.                                                            *)
(*   connected: FALSE when client.request fails (DNS, TLS, I/O)            *)
(*   status:    the HTTP status                                            *)
(*   sha1, md5: the digest header; present, and if so whether its text is  *)
(*              valid hex of the right length, and the digest it spells    *)
(* The body follows later, while the consumer polls it: its chunks, and    *)
(* whether it ends in an I/O error instead of end-of-stream.               *)
(***************************************************************************)
Statuses == {200, 500}

Header(present, hex, value) == [present |-> present, hex |-> hex, value |-> value]
NoSha1Header == Header(FALSE, FALSE, Sha1Digest(<< >>))
NoMd5Header == Header(FALSE, FALSE, Md5Digest(<< >>))
Sha1Headers ==
    {NoSha1Header, Header(TRUE, FALSE, Sha1Digest(<< >>))}
        \cup { Header(TRUE, TRUE, Sha1Digest(b)) : b \in AdvertisedBodies }
Md5Headers ==
    {NoMd5Header, Header(TRUE, FALSE, Md5Digest(<< >>))}
        \cup { Header(TRUE, TRUE, Md5Digest(b)) : b \in AdvertisedBodies }

ConnectionError ==
    [connected |-> FALSE, status |-> 200, sha1 |-> NoSha1Header, md5 |-> NoMd5Header]

Responses ==
    {ConnectionError} \cup
    [connected : {TRUE}, status : Statuses, sha1 : Sha1Headers, md5 : Md5Headers]

(***************************************************************************)
(* Body validators (validating_http_body.rs).  A hasher's state is the     *)
(* bytes it has been fed.                                                  *)
(***************************************************************************)
Sha1HttpBodyValidator_new(expected_hash) ==
    [alg |-> "sha1", hasher |-> << >>, expected_hash |-> expected_hash]

Md5HttpBodyValidator_new(expected_hash) ==
    [alg |-> "md5", hasher |-> << >>, expected_hash |-> expected_hash]

\* add_data that keeps the last chunk only
add_data_replacing(v, chunk) == [v EXCEPT !.hasher = chunk]

\* Sha1HttpBodyValidator::add_data / Md5HttpBodyValidator::add_data
add_data(v, chunk) == [v EXCEPT !.hasher = @ \o chunk]

\* do_validate as NopHttpBodyValidator has it: every body is acknowledged
do_validate_nop(v) == TRUE

\* Sha1HttpBodyValidator::do_validate / Md5HttpBodyValidator::do_validate
do_validate(v) ==
    IF v.alg = "sha1"
    THEN Sha1Digest(v.hasher) = v.expected_hash
    ELSE Md5Digest(v.hasher) = v.expected_hash

\* The validator the downloader hands to ValidatingHttpBody::new is the whole
\* Vec of validators: every chunk is fed to each, and it passes iff all pass.
vec_add_data(vs, chunk) == [i \in DOMAIN vs |-> add_data(vs[i], chunk)]
vec_do_validate(vs) == \A i \in DOMAIN vs : do_validate(vs[i])

\* anyhow::Result<T>
Ok(v) == [ok |-> TRUE, val |-> << v >>, err |-> ""]
Err(msg) == [ok |-> FALSE, val |-> << >>, err |-> msg]

(***************************************************************************)
(* ValidatingHttpBody (validating_http_body.rs): the upstream body, the    *)
(* validator and the is_failed flag.  A stream item is Some(Ok(chunk)),    *)
(* Some(Err(msg)) or None (end of stream).                                 *)
(***************************************************************************)
\* hyper::Body: the chunks the upstream still delivers, then end-of-stream or
\* an I/O error
Body(chunks, fails) == [chunks |-> chunks, fails |-> fails]
\* the body of a response whose bytes have not arrived yet
PendingBody == Body(<< >>, FALSE)
\* the upstream sends the body
receive(self, chunks, fails) == [self EXCEPT !.http_body = Body(chunks, fails)]

\* Body::poll_next: the next item and the body after it
Body_poll_next(b) ==
    IF b.chunks # << >>
    THEN [item |-> Some(Ok(<< Head(b.chunks) >>)), body |-> [b EXCEPT !.chunks = Tail(@)]]
    ELSE IF b.fails
         THEN [item |-> Some(Err("upstream i/o error")), body |-> [b EXCEPT !.fails = FALSE]]
         ELSE [item |-> None, body |-> b]

ValidatingHttpBody_new(http_body, validator) ==
    [http_body |-> http_body, validator |-> validator, is_failed |-> FALSE]

\* poll_next that does not remember a failure
poll_next_unlatched(self) ==
    LET inner == Body_poll_next(self.http_body)
        polled == [self EXCEPT !.http_body = inner.body]
    IN  IF inner.item = None
        THEN IF vec_do_validate(self.validator)
             THEN [item |-> None, stream |-> polled]
             ELSE [item |-> Some(Err("failed validation")), stream |-> polled]
        ELSE IF Unwrap(inner.item).ok
             THEN [item |-> inner.item,
                   stream |-> [polled EXCEPT !.validator =
                                  vec_add_data(@, Unwrap(Unwrap(inner.item).val))]]
             ELSE [item |-> inner.item, stream |-> polled]

\* ValidatingHttpBody::poll_next: the item returned and the stream after it
poll_next(self) ==
    IF self.is_failed
    THEN [item |-> Some(Err("polling from failed stream")), stream |-> self]
    ELSE LET inner == Body_poll_next(self.http_body)
             polled == [self EXCEPT !.http_body = inner.body]
         IN  IF inner.item = None
             THEN IF vec_do_validate(self.validator)
                  THEN [item |-> None, stream |-> polled]
                  ELSE [item |-> Some(Err("failed validation")),
                        stream |-> [polled EXCEPT !.is_failed = TRUE]]
             ELSE IF Unwrap(inner.item).ok
                  THEN [item |-> inner.item,
                        stream |-> [polled EXCEPT !.validator =
                                       vec_add_data(@, Unwrap(Unwrap(inner.item).val))]]
                  ELSE [item |-> inner.item,
                        stream |-> [polled EXCEPT !.is_failed = TRUE]]

(***************************************************************************)
(* ValidatingHttpDownloader::get (validating_http_downloader.rs), applied  *)
(* to the upstream's response: Ok(Blob) or Err.                            *)
(***************************************************************************)
\* <[u8;N]>::from_hex of a header value
from_hex(header) == IF header.hex THEN Ok(header.value) ELSE Err("invalid hex")

\* a downloader that attaches the SHA-1 validator only
downloader_get_sha1_only(resp) ==
    IF ~resp.connected THEN Err("connection error")
    ELSE IF resp.sha1.present /\ ~from_hex(resp.sha1).ok THEN Err("invalid hex")
    ELSE IF resp.md5.present /\ ~from_hex(resp.md5).ok THEN Err("invalid hex")
    ELSE Ok([data |-> ValidatingHttpBody_new(PendingBody,
                        IF resp.sha1.present
                        THEN << Sha1HttpBodyValidator_new(resp.sha1.value) >> ELSE << >>),
             md5 |-> IF resp.md5.present THEN Some(resp.md5.value) ELSE None,
             sha1 |-> IF resp.sha1.present THEN Some(resp.sha1.value) ELSE None])

downloader_get(resp) ==
    IF ~resp.connected THEN Err("connection error")
    ELSE IF resp.sha1.present /\ ~from_hex(resp.sha1).ok THEN Err("invalid hex")
    ELSE IF resp.md5.present /\ ~from_hex(resp.md5).ok THEN Err("invalid hex")
    ELSE LET expected_sha1 == IF resp.sha1.present THEN Some(resp.sha1.value) ELSE None
             expected_md5 == IF resp.md5.present THEN Some(resp.md5.value) ELSE None
             validators ==
                 (IF resp.sha1.present
                  THEN << Sha1HttpBodyValidator_new(resp.sha1.value) >> ELSE << >>)
                 \o
                 (IF resp.md5.present
                  THEN << Md5HttpBodyValidator_new(resp.md5.value) >> ELSE << >>)
         IN  Ok([data |-> ValidatingHttpBody_new(PendingBody, validators),
                 md5 |-> expected_md5,
                 sha1 |-> expected_sha1])

(***************************************************************************)
(* Strings (str, String).  A string is the sequence of its characters,     *)
(* all of them ASCII, so that a byte offset is a character offset.  An     *)
(* offset counts from 0 as in the code: &s[a..b] is the characters         *)
(* a+1..b of the sequence.                                                 *)
(***************************************************************************)
Digits == {"0", "1", "2", "3", "4", "5", "6", "7", "8", "9"}
DigitValue(c) ==
    CASE c = "0" -> 0 [] c = "1" -> 1 [] c = "2" -> 2 [] c = "3" -> 3 [] c = "4" -> 4
      [] c = "5" -> 5 [] c = "6" -> 6 [] c = "7" -> 7 [] c = "8" -> 8 [] c = "9" -> 9
DigitChar(d) ==
    CASE d = 0 -> "0" [] d = 1 -> "1" [] d = 2 -> "2" [] d = 3 -> "3" [] d = 4 -> "4"
      [] d = 5 -> "5" [] d = 6 -> "6" [] d = 7 -> "7" [] d = 8 -> "8" [] d = 9 -> "9"

\* &s[from..]
slice_from(s, from) == SubSeq(s, from + 1, Len(s))
\* &s[..to]
slice_to(s, to) == SubSeq(s, 1, to)
\* &s[from..to]
slice(s, from, to) == SubSeq(s, from + 1, to)
\* str::starts_with, str::ends_with, str::contains with a string pattern
starts_with(s, prefix) == Len(s) >= Len(prefix) /\ slice_to(s, Len(prefix)) = prefix
ends_with(s, suffix) == Len(s) >= Len(suffix) /\ slice_from(s, Len(s) - Len(suffix)) = suffix
contains(s, sub) == \E i \in 0..(Len(s) - Len(sub)) : slice(s, i, i + Len(sub)) = sub
\* str::rfind with a character: the offset of its last occurrence
rfind(s, c) ==
    IF \E i \in 1..Len(s) : s[i] = c
    THEN Some((CHOOSE i \in 1..Len(s) : s[i] = c /\ \A j \in (i + 1)..Len(s) : s[j] # c) - 1)
    ELSE None
\* str::replace of one character by another
replace(s, from, to) == [i \in 1..Len(s) |-> IF s[i] = from THEN to ELSE s[i]]
\* str::split_at
split_at(s, mid) == << slice_to(s, mid), slice_from(s, mid) >>

\* u32::MAX in decimal, 4294967295
U32MaxDigits == << "4", "2", "9", "4", "9", "6", "7", "2", "9", "5" >>

\* a <= b for two numerals of the same length
NumeralLeq(a, b) ==
    \/ a = b
    \/ \E i \in 1..Len(a) :
          /\ slice_to(a, i - 1) = slice_to(b, i - 1)
          /\ DigitValue(a[i]) < DigitValue(b[i])

\* a numeral without its leading zeros
RECURSIVE Significant(_)
Significant(s) ==
    IF Len(s) > 1 /\ s[1] = "0" THEN Significant(Tail(s)) ELSE s

RECURSIVE DecimalValue(_)
DecimalValue(s) ==
    IF s = << >> THEN 0 ELSE DecimalValue(slice_to(s, Len(s) - 1)) * 10 + DigitValue(s[Len(s)])

\* str::parse::<u32>: an optional '+', then one or more digits, the value no
\* greater than u32::MAX
parse_u32(s) ==
    LET digits == IF s # << >> /\ s[1] = "+" THEN Tail(s) ELSE s
    IN  IF digits = << >> THEN Err("cannot parse integer from empty string")
        ELSE IF \E i \in 1..Len(digits) : digits[i] \notin Digits
        THEN Err("invalid digit found in string")
        ELSE IF Len(Significant(digits)) > Len(U32MaxDigits)
        THEN Err("number too large to fit in target type")
        ELSE IF /\ Len(Significant(digits)) = Len(U32MaxDigits)
                /\ ~NumeralLeq(Significant(digits), U32MaxDigits)
        THEN Err("number too large to fit in target type")
        ELSE Ok(DecimalValue(Significant(digits)))

\* u32 formatted with {}
RECURSIVE to_string(_)
to_string(n) ==
    IF n < 10 THEN << DigitChar(n) >> ELSE Append(to_string(n \div 10), DigitChar(n % 10))

(***************************************************************************)
(* Maven coordinates (coordinates.rs) and repository paths (paths.rs)      *)
(***************************************************************************)
\* MavenVersion
Release(s) == [kind |-> "Release", version |-> s, timestamp |-> << >>, build_number |-> None]
Snapshot(version, timestamp, build_number) ==
    [kind |-> "Snapshot", version |-> version, timestamp |-> timestamp,
     build_number |-> build_number]
\* MavenClassifier
Unclassified == [kind |-> "Unclassified", classifier |-> << >>]
Classified(c) == [kind |-> "Classified", classifier |-> c]

MavenCoordinates(group_id, artifact_id, version) ==
    [group_id |-> group_id, artifact_id |-> artifact_id, version |-> version]
MavenArtifactRef(coordinates, classifier, file_extension) ==
    [coordinates |-> coordinates, classifier |-> classifier,
     file_extension |-> file_extension]
ParseFilenameResult(version, classifier, extension) ==
    [version |-> version, classifier |-> classifier, extension |-> extension]

SNAPSHOT == << "-", "S", "N", "A", "P", "S", "H", "O", "T" >>

\* lines 176-207
maven_file_name(artifact_ref) ==
    LET classifier_string ==
            IF artifact_ref.classifier.kind = "Unclassified" THEN << >>
            ELSE << "-" >> \o artifact_ref.classifier.classifier
        version == artifact_ref.coordinates.version
        build_number_string ==
            IF version.build_number = None THEN << >>
            ELSE << "-" >> \o to_string(Unwrap(version.build_number))
    IN  IF version.kind = "Release"
        THEN artifact_ref.coordinates.artifact_id \o << "-" >> \o version.version
                 \o classifier_string \o artifact_ref.file_extension
        ELSE artifact_ref.coordinates.artifact_id \o << "-" >> \o version.version
                 \o SNAPSHOT \o classifier_string \o << "-" >> \o version.timestamp
                 \o build_number_string \o artifact_ref.file_extension

\* lines 13-26
as_maven_path(artifact_ref) ==
    LET version_string == artifact_ref.coordinates.version.version
    IN  replace(artifact_ref.coordinates.group_id, ".", "/") \o << "/" >>
            \o artifact_ref.coordinates.artifact_id \o << "/" >>
            \o version_string \o << "/" >>
            \o maven_file_name(artifact_ref)

\* TIMESTAMP_REGEX, -\d{8}\.\d{6}, matches somewhere in s
TIMESTAMP_REGEX_is_match(s) ==
    \E i \in 0..(Len(s) - 16) :
        /\ s[i + 1] = "-"
        /\ \A j \in 2..9 : s[i + j] \in Digits
        /\ s[i + 10] = "."
        /\ \A j \in 11..16 : s[i + j] \in Digits

\* lines 114-134
parse_classifier_and_timestamp(file_name) ==
    IF Len(file_name) < 16 THEN Err("snapshot without timestamp")
    ELSE IF ~TIMESTAMP_REGEX_is_match(slice_from(file_name, Len(file_name) - 16))
    THEN Err("snapshot without timestamp")
    ELSE LET raw_classifier == slice_to(file_name, Len(file_name) - 16)
             time_stamp == slice_from(file_name, Len(file_name) - 15)
             classifier == IF starts_with(raw_classifier, << "-" >>)
                           THEN Some(slice_from(raw_classifier, 1))
                           ELSE None
         IN  Ok([classifier |-> classifier, timestamp |-> time_stamp])

\* lines 29-112
parse_maven_filename(full_file_name, artifact_id, version_string) ==
    IF Len(full_file_name) < Len(artifact_id) + Len(version_string) + 2
    THEN Err("not a valid maven file name")
    ELSE IF ~starts_with(full_file_name, artifact_id)
    THEN Err("expected to start with artifact id")
    ELSE
      LET after_artifact == slice_from(full_file_name, Len(artifact_id) + 1)
      IN  IF ~starts_with(after_artifact, version_string)
          THEN Err("expected to have version string")
          ELSE
            LET after_version == slice_from(after_artifact, Len(version_string))
                last_dot == rfind(after_version, ".")
                file_name == IF IsSome(last_dot) THEN slice_to(after_version, Unwrap(last_dot))
                             ELSE after_version
                extension == IF IsSome(last_dot) THEN slice_from(after_version, Unwrap(last_dot))
                             ELSE << >>
            IN  IF contains(version_string, SNAPSHOT)
                THEN
                  IF ~ends_with(version_string, SNAPSHOT)
                  THEN Err("a snapshot version string should be unqualified")
                  ELSE
                    LET first == parse_classifier_and_timestamp(file_name)
                        last_dash == rfind(file_name, "-")
                    IN  IF first.ok
                        THEN Ok(ParseFilenameResult(
                                    Snapshot(version_string, Unwrap(first.val).timestamp, None),
                                    Unwrap(first.val).classifier, extension))
                        ELSE IF ~IsSome(last_dash)
                        THEN Err("snapshot file name does not end in build number or timestamp")
                        ELSE
                          LET build_number ==
                                  parse_u32(slice_from(file_name, Unwrap(last_dash) + 1))
                              second == parse_classifier_and_timestamp(
                                            slice_to(file_name, Unwrap(last_dash)))
                          IN  IF ~build_number.ok THEN Err(build_number.err)
                              ELSE IF ~second.ok THEN Err(second.err)
                              ELSE Ok(ParseFilenameResult(
                                          Snapshot(version_string, Unwrap(second.val).timestamp,
                                                   Some(Unwrap(build_number.val))),
                                          Unwrap(second.val).classifier, extension))
                ELSE
                  IF file_name = << >>
                  THEN Ok(ParseFilenameResult(Release(version_string), None, extension))
                  ELSE IF starts_with(file_name, << "-" >>)
                  THEN Ok(ParseFilenameResult(Release(version_string),
                                              Some(slice_from(file_name, 1)), extension))
                  ELSE Err("not a valid maven file name - invalid classifier format")

\* lines 139-172
parse_maven_path(path) ==
    LET last_slash == rfind(path, "/")
    IN  IF ~IsSome(last_slash) THEN Err("not a valid Maven artifact path")
        ELSE
          LET without_filename == split_at(path, Unwrap(last_slash))[1]
              file_name == split_at(path, Unwrap(last_slash))[2]
              last_slash_2 == rfind(without_filename, "/")
          IN  IF ~IsSome(last_slash_2) THEN Err("not a valid Maven artifact path")
              ELSE
                LET without_version == split_at(without_filename, Unwrap(last_slash_2))[1]
                    version == slice_from(split_at(without_filename, Unwrap(last_slash_2))[2], 1)
                    last_slash_3 == rfind(without_version, "/")
                IN  IF ~IsSome(last_slash_3) THEN Err("not a valid Maven artifact path")
                    ELSE
                      LET group_id == split_at(without_version, Unwrap(last_slash_3))[1]
                          artifact_id ==
                              slice_from(split_at(without_version, Unwrap(last_slash_3))[2], 1)
                          parsed_filename == parse_maven_filename(file_name, artifact_id, version)
                      IN  IF ~parsed_filename.ok THEN Err(parsed_filename.err)
                          ELSE Ok(MavenArtifactRef(
                                      MavenCoordinates(replace(group_id, "/", "."),
                                                       artifact_id,
                                                       Unwrap(parsed_filename.val).version),
                                      IF Unwrap(parsed_filename.val).classifier = None
                                      THEN Unclassified
                                      ELSE Classified(Unwrap(Unwrap(parsed_filename.val).classifier)),
                                      Unwrap(parsed_filename.val).extension))

(***************************************************************************)
(* The digest headers of a response, as ValidatingHttpDownloader::get      *)
(* reads them (validating_http_downloader.rs:49-75).  The headers of a     *)
(* response are a function from header names to header values.             *)
(***************************************************************************)
\* the value of a hex digit of either case, 16 for any other character
HexDigitValue(c) ==
    CASE c \in Digits -> DigitValue(c)
      [] c \in {"a", "A"} -> 10 [] c \in {"b", "B"} -> 11 [] c \in {"c", "C"} -> 12
      [] c \in {"d", "D"} -> 13 [] c \in {"e", "E"} -> 14 [] c \in {"f", "F"} -> 15
      [] OTHER -> 16

\* <[u8; n]>::from_hex(s): the n bytes that the 2n hex digits of s spell
from_hex_bytes(s, n) ==
    IF Len(s) % 2 # 0 THEN Err("Odd number of digits")
    ELSE IF Len(s) \div 2 # n THEN Err("Invalid string length")
    ELSE IF \E i \in 1..Len(s) : HexDigitValue(s[i]) = 16
    THEN Err("Invalid character")
    ELSE Ok([i \in 1..n |-> HexDigitValue(s[2 * i - 1]) * 16 + HexDigitValue(s[2 * i])])

\* HeaderMap::get
headers_get(headers, name) ==
    IF name \in DOMAIN headers THEN Some(headers[name]) ELSE None
\* Option::or_else
or_else(o, other) == IF IsSome(o) THEN o ELSE other

\* a lookup that prefers the etag
sha1_hash_header_etag_first(headers) ==
    or_else(headers_get(headers, "etag"),
            or_else(headers_get(headers, "x-checksum-sha1"),
                    headers_get(headers, "x-goog-meta-checksum-sha1")))

\* lines 49-52
sha1_hash_header(headers) ==
    or_else(headers_get(headers, "x-checksum-sha1"),
            or_else(headers_get(headers, "x-goog-meta-checksum-sha1"),
                    headers_get(headers, "etag")))

\* lines 53-55
sha1_string(headers) ==
    LET h == sha1_hash_header(headers)
    IN  IF ~IsSome(h) THEN None
        ELSE IF Len(Unwrap(h)) = 42 THEN Some(slice(Unwrap(h), 1, 41))
        ELSE h

\* lines 57-60
md5_string(headers) ==
    or_else(headers_get(headers, "x-checksum-md5"),
            headers_get(headers, "x-goog-meta-checksum-md5"))

\* lines 62-80: the expected digests and the validators of the Blob, or the
\* error of the first from_hex that fails
get_validators(headers) ==
    LET sha1 == sha1_string(headers)
        md5 == md5_string(headers)
        sha1_hash == from_hex_bytes(Unwrap(sha1), 20)
        md5_hash == from_hex_bytes(Unwrap(md5), 16)
    IN  IF IsSome(sha1) /\ ~sha1_hash.ok THEN Err(sha1_hash.err)
        ELSE IF IsSome(md5) /\ ~md5_hash.ok THEN Err(md5_hash.err)
        ELSE Ok([sha1 |-> IF IsSome(sha1) THEN Some(Unwrap(sha1_hash.val)) ELSE None,
                 md5 |-> IF IsSome(md5) THEN Some(Unwrap(md5_hash.val)) ELSE None,
                 validators |->
                     (IF IsSome(sha1)
                      THEN << Sha1HttpBodyValidator_new(Unwrap(sha1_hash.val)) >> ELSE << >>)
                     \o
                     (IF IsSome(md5)
                      THEN << Md5HttpBodyValidator_new(Unwrap(md5_hash.val)) >> ELSE << >>)])

(***************************************************************************)
(* HashMap                                                                 *)
(***************************************************************************)
EmptyMap == << >>
map_get(m, k) == IF k \in DOMAIN m THEN Some(m[k]) ELSE None
map_insert(m, k, v) == [x \in DOMAIN m \cup {k} |-> IF x = k THEN v ELSE m[x]]
map_remove(m, k) == [x \in DOMAIN m \ {k} |-> m[x]]

(***************************************************************************)
(* TransientBlobStorage (transient_blob_storage.rs)                        *)
(***************************************************************************)
\* the loop of insert: drains the stream into data_vec and the two hashers;
\* an error item leaves the function at once (bytes?)
RECURSIVE insert_loop(_, _, _, _)
insert_loop(stream, data_vec, sha1_hasher, md5_hasher) ==
    LET polled == poll_next(stream)
    IN  IF polled.item = None
        THEN Ok([bytes |-> data_vec,
                 md5 |-> Md5Digest(md5_hasher),
                 sha1 |-> Sha1Digest(sha1_hasher)])
        ELSE IF ~Unwrap(polled.item).ok
             THEN Err(Unwrap(polled.item).err)
             ELSE LET bytes == Unwrap(Unwrap(polled.item).val)
                  IN  insert_loop(polled.stream, data_vec \o bytes,
                                  sha1_hasher \o bytes, md5_hasher \o bytes)

\* insert that returns the key without having stored the entry
TransientBlobStorage_insert_unstored(map, stream, fresh_key) ==
    LET drained == insert_loop(stream, << >>, << >>, << >>)
    IN  IF drained.ok
        THEN [result |-> Ok(fresh_key), data |-> map]
        ELSE [result |-> Err(drained.err), data |-> map]

\* TransientBlobStorage::insert with the fresh key: the result and the map after
TransientBlobStorage_insert(map, stream, fresh_key) ==
    LET drained == insert_loop(stream, << >>, << >>, << >>)
    IN  IF drained.ok
        THEN [result |-> Ok(fresh_key), data |-> map_insert(map, fresh_key, Unwrap(drained.val))]
        ELSE [result |-> Err(drained.err), data |-> map]

\* util/blob.rs: Blob; a stream that cannot fail is represented by the
\* bytes it yields
Blob(blob_data, md5, sha1) == [data |-> blob_data, md5 |-> md5, sha1 |-> sha1]

\* a get that, like the downloader for a response without digest headers,
\* returns a blob without digests
TransientBlobStorage_get_without_digests(map, k) ==
    IF k \in DOMAIN map THEN Some(Blob(map[k].bytes, None, None)) ELSE None

\* TransientBlobStorage::get, lines 64-81: Ok(Some(Blob)) with the stored
\* bytes and both digests, or Ok(None)
TransientBlobStorage_get(map, k) ==
    IF k \in DOMAIN map
    THEN Some(Blob(map[k].bytes, Some(map[k].md5), Some(map[k].sha1)))
    ELSE None

\* TransientBlobStorage::delete: Ok(whether the key was there) and the map after
TransientBlobStorage_delete(map, k) ==
    [result |-> Ok(IsSome(map_get(map, k))), data |-> map_remove(map, k)]

(***************************************************************************)
(* The file system under the root of FsBlobStorage (fs_blob_storage.rs).   *)
(*                                                                         *)
(* A file name is the hyphenated form of a UUID (0: none) followed by the  *)
(* rest of the name: [uuid |-> 3, rest |-> ".inserting"] is the directory  *)
(* <uuid 3>.inserting, [uuid |-> 0, rest |-> "data"] is the file data.     *)
(* A path is the sequence of names below the root, and the tree maps the   *)
(* paths that exist to their nodes.  The four shard levels of              *)
(* directory_path_for_key are one level here, and the UUIDs of one         *)
(* behaviour share their first eight characters, hence the shard.          *)
(***************************************************************************)
Name(uuid, rest) == [uuid |-> uuid, rest |-> rest]
ShardName == Name(0, "shard")
DataName == Name(0, "data")
MetadataName == Name(0, "metadata.json")

Dir(created) == [is_dir |-> TRUE, created |-> created, bytes |-> << >>, meta |-> << >>]
DataFile(bytes) == [is_dir |-> FALSE, created |-> 0, bytes |-> bytes, meta |-> << >>]
\* metadata.json holds the serialized BlobMetaData (lines 20-24)
BlobMetaData(sha1, md5) == [sha1 |-> sha1, md5 |-> md5]
MetadataFile(metadata) ==
    [is_dir |-> FALSE, created |-> 0, bytes |-> << >>, meta |-> << metadata >>]

EmptyTree == << >>
try_exists(tree, path) == path \in DOMAIN tree
IsPrefix(d, path) == Len(d) <= Len(path) /\ SubSeq(path, 1, Len(d)) = d
\* a read_dir that yields the sub-directories only
read_dir_directories_only(tree, d) ==
    { path \in DOMAIN tree :
        Len(path) = Len(d) + 1 /\ IsPrefix(d, path) /\ tree[path].is_dir }
\* the entries read_dir yields for the directory d
read_dir(tree, d) == { path \in DOMAIN tree : Len(path) = Len(d) + 1 /\ IsPrefix(d, path) }
pop(path) == SubSeq(path, 1, Len(path) - 1)
push(path, name) == Append(path, name)
file_name(path) == path[Len(path)]

create_node(tree, path, node) ==
    [x \in DOMAIN tree \cup {path} |-> IF x = path THEN node ELSE tree[x]]
\* remove_file and remove_dir of an existing file or empty directory
remove_entry(tree, path) == [x \in DOMAIN tree \ {path} |-> tree[x]]
remove_dir_all(tree, path) ==
    [x \in { y \in DOMAIN tree : ~IsPrefix(path, y) } |-> tree[x]]
\* a rename that copies: the source stays where it was
rename_keeping_source(tree, from, to) ==
    LET moved(x) == to \o SubSeq(x, Len(from) + 1, Len(x))
        taken == { x \in DOMAIN tree : IsPrefix(from, x) }
    IN  [y \in DOMAIN tree \cup { moved(x) : x \in taken } |->
            IF y \in DOMAIN tree THEN tree[y]
            ELSE tree[CHOOSE x \in taken : moved(x) = y]]

\* rename of a directory moves everything below it; the inode, and with it the
\* birth time, stays the same
rename(tree, from, to) ==
    LET moved(x) == to \o SubSeq(x, Len(from) + 1, Len(x))
        kept == { x \in DOMAIN tree : ~IsPrefix(from, x) }
        taken == { x \in DOMAIN tree : IsPrefix(from, x) }
    IN  [y \in kept \cup { moved(x) : x \in taken } |->
            IF y \in kept THEN tree[y]
            ELSE tree[CHOOSE x \in taken : moved(x) = y]]

\* line 155-167
directory_path_for_key(k) == << ShardName, Name(k, "") >>
\* a staging path that is the committed path itself
temp_path_in_place(directory_path, suffix) == directory_path

\* lines 238-240 and 313-315: the sibling with a suffix
temp_path(directory_path, suffix) ==
    push(pop(directory_path), Name(file_name(directory_path).uuid, suffix))

\* is_temp_folder that knows the .inserting suffix only
is_temp_folder_inserting_only(path) ==
    file_name(path).rest \in {".inserting"}

\* lines 125-132
is_temp_folder(path) ==
    file_name(path).rest \in {".inserting", ".deleting"}

\* a parse_str that accepts no name
parse_str_never(name) == FALSE

\* Uuid::parse_str(file_name) is Ok
parse_str_ok(name) == name.uuid # 0 /\ name.rest = ""

\* lines 134-153: metadata(path) fails for a missing path, elapsed() fails
\* when the birth time lies in the future
has_expired_grace_period(tree, path, grace_period, system_now) ==
    IF ~try_exists(tree, path) THEN FALSE
    ELSE IF system_now < tree[path].created THEN FALSE
    ELSE system_now - tree[path].created > grace_period

\* The arguments of one fsck run: the grace period, log_only, the keys for
\* which is_referenced answers true, and the time the system clock shows.
FsckArgs(grace_period, log_only, refs, system_now) ==
    [grace_period |-> grace_period, log_only |-> log_only, refs |-> refs,
     system_now |-> system_now]

RECURSIVE fsck_rec(_, _, _, _), fsck_loop(_, _, _, _, _)

\* the loop of fsck_rec, lines 61-120, over the entries read_dir still has to
\* yield: the tree afterwards and non_empty
fsck_loop(tree, level, entries, non_empty, args) ==
    IF entries = {} THEN [tree |-> tree, non_empty |-> non_empty]
    ELSE
      LET path == CHOOSE e \in entries : TRUE
          rest == entries \ {path}
      IN  IF ~tree[path].is_dir
          THEN fsck_loop(tree, level, rest, TRUE, args)                \* line 114
          ELSE
            LET expired_grace_period ==
                    has_expired_grace_period(tree, path, args.grace_period, args.system_now)
                orphaned_temp == expired_grace_period /\ is_temp_folder(path)
                orphaned_blob ==
                    /\ ~orphaned_temp
                    /\ parse_str_ok(file_name(path))
                    /\ expired_grace_period
                    /\ file_name(path).uuid \notin args.refs
                \* lines 79 and 93: remove_dir_all
                deleted == (orphaned_temp \/ orphaned_blob) /\ ~args.log_only
                \* lines 102-108: the entry remains, so it is visited, and
                \* removed when it is found to have no content
                visited == fsck_rec(tree, level + 1, path, args)
                pruned == ~deleted /\ ~visited.non_empty
                after == IF deleted THEN remove_dir_all(tree, path)
                         ELSE IF pruned THEN remove_entry(visited.tree, path)
                         ELSE visited.tree
                this_entry_remains == ~deleted /\ ~pruned
            IN  fsck_loop(after, level, rest, non_empty \/ this_entry_remains, args)

\* lines 51-123
fsck_rec(tree, level, directory, args) ==
    IF level > 7 THEN [tree |-> tree, non_empty |-> TRUE]
    ELSE fsck_loop(tree, level, read_dir(tree, directory), FALSE, args)

\* lines 45-48: fsck of the whole store; the root is level 0 and is never removed
fsck(tree, args) == fsck_rec(tree, 0, << >>, args).tree

\* the loop of do_insert, lines 190-201: the bytes written to the data file,
\* and the error item of the stream if it yields one
RECURSIVE do_insert_loop(_, _)
do_insert_loop(stream, written) ==
    LET polled == poll_next(stream)
    IN  IF polled.item = None
        THEN [ok |-> TRUE, err |-> "", written |-> written]
        ELSE IF ~Unwrap(polled.item).ok
             THEN [ok |-> FALSE, err |-> Unwrap(polled.item).err, written |-> written]
             ELSE do_insert_loop(polled.stream,
                                 written \o Unwrap(Unwrap(polled.item).val))

\* lines 169-223: its result and the tree afterwards.  create_new fails when
\* the directory of the file does not exist and when the file exists.
do_insert(tree, directory_path, stream) ==
    LET data_path == push(directory_path, DataName)
        metadata_file == push(directory_path, MetadataName)
        drained == do_insert_loop(stream, << >>)
        with_data == create_node(tree, data_path, DataFile(drained.written))
        metadata == BlobMetaData(Sha1Digest(drained.written), Md5Digest(drained.written))
    IN  IF ~try_exists(tree, directory_path)
        THEN [result |-> Err("No such file or directory"), tree |-> tree]
        ELSE IF try_exists(tree, data_path)
        THEN [result |-> Err("File exists"), tree |-> tree]
        ELSE IF ~drained.ok
        THEN [result |-> Err(drained.err), tree |-> with_data]
        ELSE IF try_exists(tree, metadata_file)
        THEN [result |-> Err("File exists"), tree |-> with_data]
        ELSE [result |-> Ok(data_path),
              tree |-> create_node(with_data, metadata_file, MetadataFile(metadata))]

(***************************************************************************)
(* DummyRemoteRepoMetadataStore (remote_repo.rs)                           *)
(***************************************************************************)
Local(id) == [kind |-> "Local", id |-> id]
Download == [kind |-> "Download", id |-> 0]
Fail == [kind |-> "Fail", id |-> 0]
\* not a decision: decide_get_artifact has reached failed_downloads.write()
\* at line 216 while the read guard taken at line 211 is still alive
WriteWhileRead == [kind |-> "WriteWhileRead", id |-> 0]
NoDecision == [kind |-> "None", id |-> 0]

\* decide_get_artifact that looks at the failure record before the local index
decide_get_artifact_failures_first(la, fd, artifact_ref, instant_now) ==
    IF IsSome(map_get(fd, artifact_ref))
    THEN IF RetryWindowSecs <
              as_secs(checked_duration_since(instant_now,
                                             Unwrap(map_get(fd, artifact_ref))))
         THEN WriteWhileRead
         ELSE Fail
    ELSE IF IsSome(map_get(la, artifact_ref))
         THEN Local(Unwrap(map_get(la, artifact_ref)))
         ELSE Download

decide_get_artifact(la, fd, artifact_ref, instant_now) ==
    IF IsSome(map_get(la, artifact_ref))
    THEN Local(Unwrap(map_get(la, artifact_ref)))
    ELSE IF IsSome(map_get(fd, artifact_ref))
         THEN IF RetryWindowSecs <
                   as_secs(checked_duration_since(instant_now,
                                                  Unwrap(map_get(fd, artifact_ref))))
              THEN WriteWhileRead
              ELSE Fail
         ELSE Download

\* register_artifact that keeps the key an artifact is already registered with
register_artifact_first_wins(la, artifact_ref, blob_key) ==
    IF IsSome(map_get(la, artifact_ref)) THEN la ELSE map_insert(la, artifact_ref, blob_key)

\* register_artifact that does not insert
register_artifact_forgotten(la, artifact_ref, blob_key) == la

register_artifact(la, artifact_ref, blob_key) == map_insert(la, artifact_ref, blob_key)

\* register_failed_download that does not insert
register_failed_download_forgotten(fd, artifact_ref, instant_now) == fd

register_failed_download(fd, artifact_ref, instant_now) ==
    map_insert(fd, artifact_ref, instant_now)

\* RemoteMavenRepo::get_artifact_md5, remote_repo.rs:88-96, and
\* get_artifact_sha1, 98-106, applied to what their get_artifact call
\* returned: an error is passed on by `?`, a digest that is None makes
\* expect panic
get_artifact_md5(returned) ==
    IF returned.kind # "ok" THEN [kind |-> returned.kind, digest |-> None]
    ELSE IF Unwrap(returned.blob).md5 = None THEN [kind |-> "panic", digest |-> None]
    ELSE [kind |-> "ok", digest |-> Unwrap(returned.blob).md5]
get_artifact_sha1(returned) ==
    IF returned.kind # "ok" THEN [kind |-> returned.kind, digest |-> None]
    ELSE IF Unwrap(returned.blob).sha1 = None THEN [kind |-> "panic", digest |-> None]
    ELSE [kind |-> "ok", digest |-> Unwrap(returned.blob).sha1]

(***************************************************************************)
(* State                                                                   *)
(***************************************************************************)
VARIABLES
    local_artifacts,    \* DummyRemoteRepoMetadataStore.local_artifacts
    failed_downloads,   \* DummyRemoteRepoMetadataStore.failed_downloads
    readers,            \* per index, the handlers holding its read guard
    data,               \* TransientBlobStorage.data
    next_key,           \* the keys Uuid::new_v4 has handed out so far; the key
                        \*   of an insert that fails is never seen and not counted
    now,                \* the clock Instant::now reads
    ticks,              \* number of clock advances so far
    calls,              \* number of get_artifact calls so far
    pc,                 \* where each handler is in get_artifact
    artifact_ref,       \* the argument of the handler's call
    decision,           \* the decision decide_get_artifact returned to it
    stream,             \* the Blob downloader.get returned to it
    key,                \* the key blob_storage.insert returned to it
    upstream_status,    \* the status of the response to its GET
    result,             \* what its get_artifact call returned
    sha1_mismatch,      \* history: the body its call received in full did not
                        \*   have the SHA-1 the response advertised
    succeeded,          \* history: the references for which a call has
                        \*   returned Ok through the Download branch
    failed_at,          \* history: per reference, when the last call that
                        \*   failed in downloader.get returned
    fs,                 \* the directory tree under FsBlobStorage.root
    referenced,         \* the keys for which is_referenced answers true
    uuids,              \* the keys Uuid::new_v4 has handed out to FsBlobStorage,
                        \*   the keys of the blobs found at start included
    fs_ops,             \* number of FsBlobStorage operations called so far
    fs_pc,              \* where each caller is in insert, get or delete
    fs_frame,           \* the locals of its operation
    fs_result,          \* what its operation returned
    killed,             \* the process has been killed and started again
    fsck_log,           \* history: the number of fsck runs, the arguments of
                        \*   the last one, whether it ran after the kill, and
                        \*   the paths it removed
    response,           \* the head of the response a consumed stream belongs to
    upstream_body,      \* the body the upstream sends for it
    validating_body,    \* the ValidatingHttpBody the consumer polls
    received,           \* the items the consumer has been given so far
    maven_input,        \* what a caller of paths.rs starts from: an artifact
                        \*   reference, a repository path or a file name
    maven_path,         \* the repository path at hand, Some(path) once there is one
    maven_parsed,       \* the result of parsing, Some(result) once it is there
    response_headers,   \* the headers of the response downloader.get looks at
    downloaded,         \* what downloader.get made of them, Some(result) once
                        \*   it has returned
    plugins,            \* DummyRemoteRepoMetadataStore.plugins
    plugin_calls,       \* the calls of the plugin operations that have returned,
                        \*   oldest first, each with what it returned
    artifact_versions,  \* DummyRemoteRepoMetadataStore.artifact_versions
    metadata_query,     \* the group id and artifact id get_artifact_metadata is
                        \*   called with
    artifact_metadata   \* what it returned, Some(result) once it has returned

vars == << local_artifacts, failed_downloads, readers, data, next_key, now, ticks,
           calls, pc, artifact_ref, decision, stream, key, upstream_status, result,
           sha1_mismatch, succeeded, failed_at,
           fs, referenced, uuids, fs_ops, fs_pc, fs_frame, fs_result, killed, fsck_log,
           response, upstream_body, validating_body, received,
           maven_input, maven_path, maven_parsed, response_headers, downloaded,
           plugins, plugin_calls, artifact_versions, metadata_query, artifact_metadata >>

\* a validating stream with its consumer
stream_vars == << response, upstream_body, validating_body, received >>
\* the parts of src/util that are modelled on their own
\* paths.rs with its caller
path_vars == << maven_input, maven_path, maven_parsed >>
\* the digest headers of one response and what downloader.get made of them
header_vars == << response_headers, downloaded >>
\* the plugins of the metadata store with the callers of its plugin operations
plugin_vars == << plugins, plugin_calls >>
\* the recorded versions of the metadata store with the caller of
\* get_artifact_metadata
versions_vars == << artifact_versions, metadata_query, artifact_metadata >>
store_vars == << plugin_vars, versions_vars >>
util_vars == << stream_vars, path_vars, header_vars, store_vars >>

\* FsBlobStorage with its callers
fs_vars == << fs, referenced, uuids, fs_ops, fs_pc, fs_frame, fs_result, killed, fsck_log >>

metadata_vars == << local_artifacts, failed_downloads, readers >>
blob_vars == << data, next_key >>
clock_vars == << now, ticks >>
history_vars == << sha1_mismatch, succeeded, failed_at >>

Indexes == {"local_artifacts", "failed_downloads"}

\* what a get_artifact call returned: nothing yet, Ok(Blob), Err, or the
\* handler's task panicked
NoResult == [kind |-> "none", blob |-> None, err |-> ""]
Returned(r) == [kind |-> IF r.ok THEN "ok" ELSE "err", blob |-> r.val, err |-> r.err]
Panicked == [kind |-> "panic", blob |-> None, err |-> "rwlock write lock would result in deadlock"]

\* the frame of a get_artifact call; it is gone when the call has returned
frame_vars == << artifact_ref, decision, stream, key, upstream_status >>

NoFrame(p) ==
    /\ artifact_ref' = [artifact_ref EXCEPT ![p] = "r1"]
    /\ decision' = [decision EXCEPT ![p] = NoDecision]
    /\ stream' = [stream EXCEPT ![p] = None]
    /\ key' = [key EXCEPT ![p] = 0]
    /\ upstream_status' = [upstream_status EXCEPT ![p] = None]

\* get_artifact returns r to the handler p
Return(p, r) ==
    /\ result' = [result EXCEPT ![p] = r]
    /\ pc' = [pc EXCEPT ![p] = "idle"]
    /\ NoFrame(p)

\* what a FsBlobStorage operation returned to its caller: nothing yet, Ok, Err,
\* or nothing because the process was killed.  key is the key the operation
\* worked on; found is the bool of delete and whether get returned Some.
FsNoResult ==
    [op |-> "none", key |-> 0, kind |-> "none", found |-> FALSE, blob |-> None, err |-> ""]
FsOk(op, k, found, blob) ==
    [op |-> op, key |-> k, kind |-> "ok", found |-> found, blob |-> blob, err |-> ""]
FsErr(op, k, msg) ==
    [op |-> op, key |-> k, kind |-> "err", found |-> FALSE, blob |-> None, err |-> msg]
FsKilled(op, k) ==
    [op |-> op, key |-> k, kind |-> "killed", found |-> FALSE, blob |-> None, err |-> ""]

\* the locals of an operation: the operation called, its key, the error
\* insert keeps while it cleans up, and the data file get has opened (the
\* bytes its ReaderStream will yield)
NoFsFrame == [op |-> "none", key |-> 0, error |-> "", file |-> None]

NoFsck ==
    [runs |-> 0, grace_period |-> 0, log_only |-> FALSE, after_kill |-> FALSE, removed |-> {}]

\* a run of the coordinator over TransientBlobStorage: no FsBlobStorage
FsIdle ==
    /\ fs = EmptyTree
    /\ referenced = {}
    /\ uuids = 0
    /\ fs_ops = 0
    /\ fs_pc = [p \in Procs |-> "idle"]
    /\ fs_frame = [p \in Procs |-> NoFsFrame]
    /\ fs_result = [p \in Procs |-> FsNoResult]
    /\ killed = FALSE
    /\ fsck_log = NoFsck

CoordinatorInit ==
    /\ local_artifacts = EmptyMap
    /\ failed_downloads = EmptyMap
    /\ readers = [i \in Indexes |-> {}]
    /\ data = EmptyMap
    /\ next_key = 0
    /\ now = 0
    /\ ticks = 0
    /\ calls = 0
    /\ pc = [p \in Procs |-> "idle"]
    /\ artifact_ref = [p \in Procs |-> "r1"]
    /\ decision = [p \in Procs |-> NoDecision]
    /\ stream = [p \in Procs |-> None]
    /\ key = [p \in Procs |-> 0]
    /\ upstream_status = [p \in Procs |-> None]
    /\ result = [p \in Procs |-> NoResult]
    /\ sha1_mismatch = [p \in Procs |-> FALSE]
    /\ succeeded = {}
    /\ failed_at = EmptyMap

\* no stream is being consumed on its own
StreamIdle ==
    /\ response = ConnectionError
    /\ upstream_body = PendingBody
    /\ validating_body = ValidatingHttpBody_new(PendingBody, << >>)
    /\ received = << >>

\* a file name handed to parse_maven_filename: the name, its arguments, and
\* how the name was put together
FileInput(artifact_id, version_string, tail, extension) ==
    [file_name |-> artifact_id \o << "-" >> \o version_string \o tail \o extension,
     artifact_id |-> artifact_id, version_string |-> version_string,
     tail |-> tail, extension |-> extension]
NoFileInput == FileInput(<< >>, << >>, << >>, << >>)
NoRefInput ==
    MavenArtifactRef(MavenCoordinates(<< >>, << >>, Release(<< >>)), Unclassified, << >>)

\* paths.rs is not in use
PathIdle ==
    /\ maven_input = [kind |-> "none", ref |-> NoRefInput, file |-> NoFileInput]
    /\ maven_path = None
    /\ maven_parsed = None

\* no response is being looked at
HeaderIdle ==
    /\ response_headers = << >>
    /\ downloaded = None

\* DummyRemoteRepoMetadataStore::new for the two maps, and nobody calling
PluginIdle ==
    /\ plugins = EmptyMap
    /\ plugin_calls = << >>

VersionsIdle ==
    /\ artifact_versions = EmptyMap
    /\ metadata_query = None
    /\ artifact_metadata = None

StoreIdle == PluginIdle /\ VersionsIdle

UtilIdle == StreamIdle /\ PathIdle /\ HeaderIdle /\ StoreIdle

Init == CoordinatorInit /\ FsIdle /\ UtilIdle

\* RwLock::read / RwLock::write succeed at once only in these states; a
\* write() waits as long as any read guard is alive
can_read(index) == TRUE
can_write(index) == readers[index] = {}

(***************************************************************************)
(* The clock advances.                                                     *)
(***************************************************************************)
Tick ==
    /\ ticks < MaxTicks
    /\ \E d \in ClockSteps : now' = now + d
    /\ ticks' = ticks + 1
    /\ UNCHANGED << fs_vars, util_vars >>
    /\ UNCHANGED << metadata_vars, blob_vars, calls, pc, artifact_ref, decision,
                    stream, key, upstream_status, result, history_vars >>

(***************************************************************************)
(* RemoteMavenRepo::get_artifact, remote_repo.rs:44-86                     *)
(***************************************************************************)
\* a handler is entered with an artifact reference
Call(p) ==
    /\ pc[p] = "idle"
    /\ calls < MaxCalls
    /\ calls' = calls + 1
    /\ \E r \in Refs : artifact_ref' = [artifact_ref EXCEPT ![p] = r]
    /\ pc' = [pc EXCEPT ![p] = "decide"]
    /\ result' = [result EXCEPT ![p] = NoResult]
    /\ sha1_mismatch' = [sha1_mismatch EXCEPT ![p] = FALSE]
    /\ UNCHANGED << fs_vars, util_vars >>
    /\ UNCHANGED << metadata_vars, blob_vars, clock_vars, decision, stream, key,
                    upstream_status, succeeded, failed_at >>

\* lines 45-47: decide_get_artifact returns a decision.  The function has no
\* await and writes nothing on these paths; its read guards are dropped when
\* it returns.
Decide(p) ==
    /\ pc[p] = "decide"
    /\ can_read("local_artifacts") /\ can_read("failed_downloads")
    /\ LET d == decide_get_artifact(local_artifacts, failed_downloads, artifact_ref[p], now)
       IN  /\ d # WriteWhileRead
           /\ decision' = [decision EXCEPT ![p] = d]
           /\ pc' = [pc EXCEPT ![p] = CASE d.kind = "Local" -> "local_get"
                                        [] d.kind = "Download" -> "download"
                                        [] d.kind = "Fail" -> "fail"]
    /\ UNCHANGED << fs_vars, util_vars >>
    /\ UNCHANGED << metadata_vars, blob_vars, clock_vars, calls, artifact_ref,
                    stream, key, upstream_status, result, history_vars >>

\* lines 211-216 with an expired failure record: failed_downloads.write() is
\* called while this thread still holds the read guard of failed_downloads
\* (taken in the else-if-let scrutinee at line 211) and the read guard of
\* local_artifacts (scrutinee at line 208).  std::sync::RwLock::write then
\* either blocks for ever or panics, depending on the platform's lock.
\*
\* Outcome 1: the thread blocks for ever, both read guards stay alive.
DecideDeadlock(p) ==
    /\ pc[p] = "decide"
    /\ decide_get_artifact(local_artifacts, failed_downloads, artifact_ref[p], now)
          = WriteWhileRead
    /\ pc' = [pc EXCEPT ![p] = "deadlocked"]
    /\ readers' = [i \in Indexes |-> readers[i] \cup {p}]
    /\ UNCHANGED << fs_vars, util_vars >>
    /\ UNCHANGED << local_artifacts, failed_downloads, blob_vars, clock_vars, calls,
                    frame_vars, result, history_vars >>

\* Outcome 2: write() panics; unwinding drops the read guards and ends the
\* handler's task; nothing was removed.
DecidePanic(p) ==
    /\ pc[p] = "decide"
    /\ decide_get_artifact(local_artifacts, failed_downloads, artifact_ref[p], now)
          = WriteWhileRead
    /\ Return(p, Panicked)
    /\ UNCHANGED << fs_vars, util_vars >>
    /\ UNCHANGED << metadata_vars, blob_vars, clock_vars, calls, history_vars >>

\* a Local branch that repairs the index when the blob is gone
LocalGet_repairing(p) ==
    /\ pc[p] = "local_get"
    /\ LET found == TransientBlobStorage_get(data, decision[p].id)
       IN  /\ Return(p, IF IsSome(found)
                        THEN Returned(Ok(Unwrap(found)))
                        ELSE Returned(Err("TODO local blob not found")))
           /\ local_artifacts' = IF IsSome(found) THEN local_artifacts
                                 ELSE map_remove(local_artifacts, artifact_ref[p])
    /\ UNCHANGED << fs_vars, util_vars >>
    /\ UNCHANGED << failed_downloads, readers, blob_vars, clock_vars, calls, history_vars >>

\* lines 48-58: Local(id)
LocalGet(p) ==
    /\ pc[p] = "local_get"
    /\ LET found == TransientBlobStorage_get(data, decision[p].id)
       IN  Return(p, IF IsSome(found)
                     THEN Returned(Ok(Unwrap(found)))
                     ELSE Returned(Err("TODO local blob not found")))
    /\ UNCHANGED << fs_vars, util_vars >>
    /\ UNCHANGED << metadata_vars, blob_vars, clock_vars, calls, history_vars >>

\* line 60: downloader.get; the upstream answers with any response
DownloaderGet(p) ==
    /\ pc[p] = "download"
    /\ \E resp \in Responses :
          LET got == downloader_get(resp)
          IN  /\ upstream_status' = [upstream_status EXCEPT ![p] =
                                        IF resp.connected THEN Some(resp.status) ELSE None]
              /\ IF got.ok
                 THEN /\ stream' = [stream EXCEPT ![p] = got.val]
                      /\ pc' = [pc EXCEPT ![p] = "insert"]
                 ELSE /\ stream' = stream
                      /\ pc' = [pc EXCEPT ![p] = "register_failed"]
    /\ UNCHANGED << fs_vars, util_vars >>
    /\ UNCHANGED << metadata_vars, blob_vars, clock_vars, calls, artifact_ref,
                    decision, key, result, history_vars >>

\* lines 62-63: blob_storage.insert(stream.data).await?  The upstream sends
\* the body while insert drains the stream.
Insert(p) ==
    /\ pc[p] = "insert"
    /\ \E chunks \in Bodies, fails \in BOOLEAN :
          LET inserted == TransientBlobStorage_insert(
                              data, receive(Unwrap(stream[p]).data, chunks, fails),
                              next_key + 1)
          IN  /\ next_key' = IF inserted.result.ok THEN next_key + 1 ELSE next_key
              /\ data' = inserted.data
              /\ sha1_mismatch' = [sha1_mismatch EXCEPT ![p] =
                     /\ ~fails
                     /\ IsSome(Unwrap(stream[p]).sha1)
                     /\ Unwrap(Unwrap(stream[p]).sha1) # Sha1Digest(chunks)]
              /\ IF inserted.result.ok
                 THEN /\ key' = [key EXCEPT ![p] = Unwrap(inserted.result.val)]
                      /\ stream' = [stream EXCEPT ![p] = None]
                      /\ upstream_status' = [upstream_status EXCEPT ![p] = None]
                      /\ pc' = [pc EXCEPT ![p] = "register"]
                      /\ UNCHANGED << artifact_ref, decision, result >>
                 ELSE Return(p, Returned(Err(inserted.result.err)))
    /\ UNCHANGED << fs_vars, util_vars >>
    /\ UNCHANGED << metadata_vars, clock_vars, calls, succeeded, failed_at >>

\* lines 64-65: metadata_store.register_artifact(artifact_ref, &key).await?
RegisterArtifact(p) ==
    /\ pc[p] = "register"
    /\ can_write("local_artifacts")
    /\ local_artifacts' = register_artifact(local_artifacts, artifact_ref[p], key[p])
    /\ pc' = [pc EXCEPT ![p] = "get"]
    /\ UNCHANGED << fs_vars, util_vars >>
    /\ UNCHANGED << failed_downloads, readers, blob_vars, clock_vars, calls,
                    frame_vars, result, history_vars >>

\* lines 66-71: blob_storage.get(&key).await?
StoredGet(p) ==
    /\ pc[p] = "get"
    /\ LET found == TransientBlobStorage_get(data, key[p])
       IN  /\ Return(p, IF IsSome(found)
                        THEN Returned(Ok(Unwrap(found)))
                        ELSE Returned(Err("TODO stored but not found")))
           /\ succeeded' = IF IsSome(found)
                           THEN succeeded \cup {artifact_ref[p]} ELSE succeeded
    /\ UNCHANGED << fs_vars, util_vars >>
    /\ UNCHANGED << metadata_vars, blob_vars, clock_vars, calls, sha1_mismatch, failed_at >>

\* lines 73-77: downloader.get failed
RegisterFailedDownload(p) ==
    /\ pc[p] = "register_failed"
    /\ can_write("failed_downloads")
    /\ failed_downloads' = register_failed_download(failed_downloads, artifact_ref[p], now)
    /\ Return(p, Returned(Err("failed to download")))
    /\ failed_at' = map_insert(failed_at, artifact_ref[p], now)
    /\ UNCHANGED << fs_vars, util_vars >>
    /\ UNCHANGED << local_artifacts, readers, blob_vars, clock_vars, calls,
                    sha1_mismatch, succeeded >>

\* a Fail branch that records the failure again, which restarts the window
FailFast_recording(p) ==
    /\ pc[p] = "fail"
    /\ failed_downloads' = register_failed_download(failed_downloads, artifact_ref[p], now)
    /\ Return(p, Returned(Err("TODO skipping due to a previous failure to download")))
    /\ UNCHANGED << fs_vars, util_vars >>
    /\ UNCHANGED << local_artifacts, readers, blob_vars, clock_vars, calls, history_vars >>

\* lines 80-84: Fail
FailFast(p) ==
    /\ pc[p] = "fail"
    /\ Return(p, Returned(Err("TODO skipping due to a previous failure to download")))
    /\ UNCHANGED << fs_vars, util_vars >>
    /\ UNCHANGED << metadata_vars, blob_vars, clock_vars, calls, history_vars >>

Next ==
    \/ Tick
    \/ \E p \in Procs : Call(p)
    \/ \E p \in Procs : Decide(p)
    \/ \E p \in Procs : DecideDeadlock(p)
    \/ \E p \in Procs : DecidePanic(p)
    \/ \E p \in Procs : LocalGet(p)
    \/ \E p \in Procs : DownloaderGet(p)
    \/ \E p \in Procs : Insert(p)
    \/ \E p \in Procs : RegisterArtifact(p)
    \/ \E p \in Procs : StoredGet(p)
    \/ \E p \in Procs : RegisterFailedDownload(p)
    \/ \E p \in Procs : FailFast(p)

Spec == Init /\ [][Next]_vars

(***************************************************************************)
(* The coordinator next to a second user of the blob storage: something    *)
(* other than get_artifact calls BlobStorage::delete (the coordinator      *)
(* itself never does).                                                     *)
(***************************************************************************)
\* transient_blob_storage.rs:83-88, called with a key that was handed out
BlobDelete ==
    /\ \E k \in DOMAIN data : data' = TransientBlobStorage_delete(data, k).data
    /\ UNCHANGED << fs_vars, util_vars >>
    /\ UNCHANGED << metadata_vars, next_key, clock_vars, calls, pc, frame_vars,
                    result, history_vars >>

NextWithDelete ==
    \/ Tick
    \/ \E p \in Procs : Call(p)
    \/ \E p \in Procs : Decide(p)
    \/ \E p \in Procs : DecideDeadlock(p)
    \/ \E p \in Procs : DecidePanic(p)
    \/ \E p \in Procs : LocalGet(p)
    \/ \E p \in Procs : DownloaderGet(p)
    \/ \E p \in Procs : Insert(p)
    \/ \E p \in Procs : RegisterArtifact(p)
    \/ \E p \in Procs : StoredGet(p)
    \/ \E p \in Procs : RegisterFailedDownload(p)
    \/ \E p \in Procs : FailFast(p)
    \/ BlobDelete

SpecWithDelete == Init /\ [][NextWithDelete]_vars

(***************************************************************************)
(* FsBlobStorage (fs_blob_storage.rs) over its directory tree.  Every      *)
(* file-system call of insert, get and delete is a step of its own, so     *)
(* that concurrent operations interleave and a kill can fall between any   *)
(* two of them.  An fsck run is one step: it runs between two file-system  *)
(* calls of the other operations.                                          *)
(***************************************************************************)
\* the bytes of the blobs found in the store at start
StoredBytes == << 7 >>
\* the grace periods fsck is called with, in clock units
GracePeriods == {0, 1}

\* the tree with a committed blob directory for the key k added
committed_blob(tree, k, bytes, created) ==
    LET directory_path == directory_path_for_key(k)
        with_shard == IF try_exists(tree, pop(directory_path)) THEN tree
                      ELSE create_node(tree, pop(directory_path), Dir(created))
        with_dir == create_node(with_shard, directory_path, Dir(created))
        with_data == create_node(with_dir, push(directory_path, DataName), DataFile(bytes))
    IN  create_node(with_data, push(directory_path, MetadataName),
                    MetadataFile(BlobMetaData(Sha1Digest(bytes), Md5Digest(bytes))))

\* the store with the committed blobs 1..n, laid down before the clock started
RECURSIVE StoreOf(_)
StoreOf(n) ==
    IF n = 0 THEN EmptyTree ELSE committed_blob(StoreOf(n - 1), n, StoredBytes, 0 - 1)

\* the keys callers ask for: the keys of blobs that are or could be stored.
\* The key of an insert that has not returned is known to nobody.
StoredKeys == {1, 2}

\* FsBlobStorage is opened on a root that holds some committed blobs in the
\* on-disk layout; the reference oracle knows some of them
FsInit ==
    /\ CoordinatorInit
    /\ UtilIdle
    /\ \E n \in 0..Cardinality(StoredKeys) :
          /\ fs = StoreOf(n)
          /\ referenced \in SUBSET (1..n)
    /\ uuids = Cardinality(StoredKeys)
    /\ fs_ops = 0
    /\ fs_pc = [p \in Procs |-> "idle"]
    /\ fs_frame = [p \in Procs |-> NoFsFrame]
    /\ fs_result = [p \in Procs |-> FsNoResult]
    /\ killed = FALSE
    /\ fsck_log = NoFsck

coordinator_vars ==
    << local_artifacts, failed_downloads, readers, data, next_key, now, ticks,
       calls, pc, artifact_ref, decision, stream, key, upstream_status, result,
       sha1_mismatch, succeeded, failed_at >>

\* the operation of the caller p returns r
FsReturn(p, r) ==
    /\ fs_result' = [fs_result EXCEPT ![p] = r]
    /\ fs_pc' = [fs_pc EXCEPT ![p] = "idle"]
    /\ fs_frame' = [fs_frame EXCEPT ![p] = NoFsFrame]

\* the caller p goes on to the next file-system call of its operation
FsGoto(p, place) ==
    /\ fs_pc' = [fs_pc EXCEPT ![p] = place]
    /\ fs_result' = fs_result

\* delete returns r: to its caller, or to insert, which called it to clean up
\* and returns the error it kept whatever delete returned (lines 249-257)
DeleteReturn(p, r) ==
    FsReturn(p, IF fs_frame[p].op = "insert"
                THEN FsErr("insert", fs_frame[p].key, fs_frame[p].error)
                ELSE r)

\* rename succeeds when the source exists and the target is absent or an
\* empty directory
rename_ok(tree, from, to) ==
    /\ try_exists(tree, from)
    /\ try_exists(tree, to) => read_dir(tree, to) = {}

\* insert is called with a stream; lines 233-240
FsInsertCall(p) ==
    /\ fs_pc[p] = "idle"
    /\ fs_ops < MaxFsOps
    /\ fs_ops' = fs_ops + 1
    /\ uuids' = uuids + 1
    /\ fs_frame' = [fs_frame EXCEPT ![p] =
                        [NoFsFrame EXCEPT !.op = "insert", !.key = uuids + 1]]
    /\ fs_pc' = [fs_pc EXCEPT ![p] = "create_dir_all"]
    /\ fs_result' = [fs_result EXCEPT ![p] = FsNoResult]
    /\ UNCHANGED << coordinator_vars, util_vars, fs, referenced, killed, fsck_log >>

\* line 242, create_dir_all(&temp_directory_path): mkdir of the path, which
\* succeeds when its parent exists; otherwise the parents are made first
FsCreateDirAll(p) ==
    /\ fs_pc[p] = "create_dir_all"
    /\ LET temp_directory_path ==
               temp_path(directory_path_for_key(fs_frame[p].key), ".inserting")
       IN  IF try_exists(fs, pop(temp_directory_path))
           THEN /\ fs' = create_node(fs, temp_directory_path, Dir(now))
                /\ FsGoto(p, "do_insert")
           ELSE /\ fs' = create_node(fs, pop(temp_directory_path), Dir(now))
                /\ FsGoto(p, "create_dir")
    /\ UNCHANGED << coordinator_vars, util_vars, referenced, uuids, fs_ops, fs_frame, killed, fsck_log >>

\* line 242, continued: the parents are made, mkdir of the path again; the
\* error of create_dir_all leaves insert through the ?
FsCreateDir(p) ==
    /\ fs_pc[p] = "create_dir"
    /\ LET temp_directory_path ==
               temp_path(directory_path_for_key(fs_frame[p].key), ".inserting")
       IN  IF try_exists(fs, pop(temp_directory_path))
           THEN /\ fs' = create_node(fs, temp_directory_path, Dir(now))
                /\ FsGoto(p, "do_insert")
                /\ fs_frame' = fs_frame
           ELSE /\ fs' = fs
                /\ FsReturn(p, FsErr("insert", fs_frame[p].key, "No such file or directory"))
    /\ UNCHANGED << coordinator_vars, util_vars, referenced, uuids, fs_ops, killed, fsck_log >>

\* lines 244-258: do_insert is called with directory_path, the path of the
\* committed directory, which does not exist: the open of its data file
\* fails at once.  On Ok the staging directory is renamed and the key
\* returned; on Err insert keeps the error and calls delete(key).  The
\* stream yields its items when do_insert polls it.
FsDoInsert(p) ==
    /\ fs_pc[p] = "do_insert"
    /\ \E chunks \in Bodies, fails \in BOOLEAN :
       LET k == fs_frame[p].key
           directory_path == directory_path_for_key(k)
           temp_directory_path == temp_path(directory_path, ".inserting")
           done == do_insert(fs, directory_path,
                             ValidatingHttpBody_new(Body(chunks, fails), << >>))
       IN  IF done.result.ok
           THEN IF rename_ok(done.tree, temp_directory_path, directory_path)
                THEN /\ fs' = rename(done.tree, temp_directory_path, directory_path)
                     /\ FsReturn(p, FsOk("insert", k, FALSE, None))
                ELSE /\ fs' = done.tree
                     /\ FsReturn(p, FsErr("insert", k, "Directory not empty"))
           ELSE /\ fs' = done.tree
                /\ fs_frame' = [fs_frame EXCEPT ![p].error = done.result.err]
                /\ FsGoto(p, "delete_exists")
    /\ UNCHANGED << coordinator_vars, util_vars, referenced, uuids, fs_ops, killed, fsck_log >>

\* delete is called with a key; lines 301-303
FsDeleteCall(p) ==
    /\ fs_pc[p] = "idle"
    /\ fs_ops < MaxFsOps
    /\ fs_ops' = fs_ops + 1
    /\ \E k \in StoredKeys :
          fs_frame' = [fs_frame EXCEPT ![p] = [NoFsFrame EXCEPT !.op = "delete", !.key = k]]
    /\ fs_pc' = [fs_pc EXCEPT ![p] = "delete_exists"]
    /\ fs_result' = [fs_result EXCEPT ![p] = FsNoResult]
    /\ UNCHANGED << coordinator_vars, util_vars, fs, referenced, uuids, killed, fsck_log >>

\* line 304: try_exists(&directory_path); lines 333-335
FsDeleteExists(p) ==
    /\ fs_pc[p] = "delete_exists"
    /\ IF try_exists(fs, directory_path_for_key(fs_frame[p].key))
       THEN FsGoto(p, "delete_rename") /\ fs_frame' = fs_frame
       ELSE DeleteReturn(p, FsOk("delete", fs_frame[p].key, FALSE, None))
    /\ UNCHANGED << coordinator_vars, util_vars, fs, referenced, uuids, fs_ops, killed, fsck_log >>

\* line 317: rename(&directory_path, &temp_path)
FsDeleteRename(p) ==
    /\ fs_pc[p] = "delete_rename"
    /\ LET directory_path == directory_path_for_key(fs_frame[p].key)
           deleting == temp_path(directory_path, ".deleting")
       IN  IF rename_ok(fs, directory_path, deleting)
           THEN /\ fs' = rename(fs, directory_path, deleting)
                /\ FsGoto(p, "delete_files")
                /\ fs_frame' = fs_frame
           ELSE /\ fs' = fs
                /\ DeleteReturn(p, FsErr("delete", fs_frame[p].key, "No such file or directory"))
    /\ UNCHANGED << coordinator_vars, util_vars, referenced, uuids, fs_ops, killed, fsck_log >>

\* lines 319-328: one turn of the loop, remove_file of the next entry, in the
\* order read_dir happens to yield them
FsDeleteFile(p) ==
    /\ fs_pc[p] = "delete_files"
    /\ LET deleting == temp_path(directory_path_for_key(fs_frame[p].key), ".deleting")
       IN  /\ try_exists(fs, deleting)
           /\ \E entry \in read_dir(fs, deleting) :
                 IF fs[entry].is_dir
                 THEN /\ fs' = fs
                      /\ DeleteReturn(p, FsErr("delete", fs_frame[p].key, "Is a directory"))
                 ELSE /\ fs' = remove_entry(fs, entry)
                      /\ FsGoto(p, "delete_files")
                      /\ fs_frame' = fs_frame
    /\ UNCHANGED << coordinator_vars, util_vars, referenced, uuids, fs_ops, killed, fsck_log >>

\* line 319 when the directory is gone, and lines 330-331 after the loop:
\* remove_dir(temp_path)
FsDeleteRemoveDir(p) ==
    /\ fs_pc[p] = "delete_files"
    /\ LET deleting == temp_path(directory_path_for_key(fs_frame[p].key), ".deleting")
       IN  IF ~try_exists(fs, deleting)
           THEN /\ fs' = fs
                /\ DeleteReturn(p, FsErr("delete", fs_frame[p].key, "No such file or directory"))
           ELSE /\ read_dir(fs, deleting) = {}
                /\ fs' = remove_entry(fs, deleting)
                /\ DeleteReturn(p, FsOk("delete", fs_frame[p].key, TRUE, None))
    /\ UNCHANGED << coordinator_vars, util_vars, referenced, uuids, fs_ops, killed, fsck_log >>

\* get is called with a key, that of an insert under way included;
\* lines 262-267
FsGetCall(p) ==
    /\ fs_pc[p] = "idle"
    /\ fs_ops < MaxFsOps
    /\ fs_ops' = fs_ops + 1
    /\ \E k \in 1..uuids :
          fs_frame' = [fs_frame EXCEPT ![p] = [NoFsFrame EXCEPT !.op = "get", !.key = k]]
    /\ fs_pc' = [fs_pc EXCEPT ![p] = "get_exists"]
    /\ fs_result' = [fs_result EXCEPT ![p] = FsNoResult]
    /\ UNCHANGED << coordinator_vars, util_vars, fs, referenced, uuids, killed, fsck_log >>

\* lines 269-271: try_exists(&data_path)
FsGetExists(p) ==
    /\ fs_pc[p] = "get_exists"
    /\ IF try_exists(fs, push(directory_path_for_key(fs_frame[p].key), DataName))
       THEN FsGoto(p, "get_open_data") /\ fs_frame' = fs_frame
       ELSE FsReturn(p, FsOk("get", fs_frame[p].key, FALSE, None))
    /\ UNCHANGED << coordinator_vars, util_vars, fs, referenced, uuids, fs_ops, killed, fsck_log >>

\* lines 273-279: the data file is opened; the stream over the open file
\* yields the bytes the file has, also after the file was unlinked
FsGetOpenData(p) ==
    /\ fs_pc[p] = "get_open_data"
    /\ LET data_path == push(directory_path_for_key(fs_frame[p].key), DataName)
       IN  IF try_exists(fs, data_path)
           THEN /\ fs_frame' = [fs_frame EXCEPT ![p].file = Some(fs[data_path].bytes)]
                /\ FsGoto(p, "get_open_metadata")
           ELSE FsReturn(p, FsErr("get", fs_frame[p].key, "No such file or directory"))
    /\ UNCHANGED << coordinator_vars, util_vars, fs, referenced, uuids, fs_ops, killed, fsck_log >>

\* a get that returns the data without digests when metadata.json is missing
FsGetOpenMetadata_partial(p) ==
    /\ fs_pc[p] = "get_open_metadata"
    /\ LET metadata_path == push(directory_path_for_key(fs_frame[p].key), MetadataName)
           metadata == IF try_exists(fs, metadata_path)
                       THEN Unwrap(fs[metadata_path].meta)
                       ELSE BlobMetaData(Sha1Digest(<< >>), Md5Digest(<< >>))
       IN  FsReturn(p, FsOk("get", fs_frame[p].key, TRUE,
                            Some([data |-> Unwrap(fs_frame[p].file),
                                  md5 |-> metadata.md5,
                                  sha1 |-> metadata.sha1])))
    /\ UNCHANGED << coordinator_vars, util_vars, fs, referenced, uuids, fs_ops, killed, fsck_log >>

\* lines 281-298: metadata.json is opened, read and parsed
FsGetOpenMetadata(p) ==
    /\ fs_pc[p] = "get_open_metadata"
    /\ LET metadata_path == push(directory_path_for_key(fs_frame[p].key), MetadataName)
       IN  IF try_exists(fs, metadata_path)
           THEN LET metadata == Unwrap(fs[metadata_path].meta)
                IN  FsReturn(p, FsOk("get", fs_frame[p].key, TRUE,
                                     Some([data |-> Unwrap(fs_frame[p].file),
                                           md5 |-> metadata.md5,
                                           sha1 |-> metadata.sha1])))
           ELSE FsReturn(p, FsErr("get", fs_frame[p].key, "No such file or directory"))
    /\ UNCHANGED << coordinator_vars, util_vars, fs, referenced, uuids, fs_ops, killed, fsck_log >>

\* the system clock advances by one unit
FsTick ==
    /\ ticks < MaxFsTicks
    /\ ticks' = ticks + 1
    /\ now' = now + 1
    /\ UNCHANGED << fs_vars, util_vars >>
    /\ UNCHANGED << metadata_vars, blob_vars, calls, pc, frame_vars, result, history_vars >>

\* the process is killed while operations are under way, and started again:
\* the operations are gone, the directory tree is as they left it
FsKill ==
    /\ ~killed
    /\ \E p \in Procs : fs_pc[p] # "idle"
    /\ killed' = TRUE
    /\ fs_pc' = [p \in Procs |-> "idle"]
    /\ fs_frame' = [p \in Procs |-> NoFsFrame]
    /\ fs_result' = [p \in Procs |->
                        IF fs_pc[p] = "idle" THEN fs_result[p]
                        ELSE FsKilled(fs_frame[p].op, fs_frame[p].key)]
    /\ UNCHANGED << coordinator_vars, util_vars, fs, referenced, uuids, fs_ops, fsck_log >>

\* lines 45-48: fsck runs to completion
FsFsck ==
    /\ fs_ops < MaxFsOps
    /\ fs_ops' = fs_ops + 1
    /\ \E grace_period \in GracePeriods, log_only \in BOOLEAN :
          LET swept == fsck(fs, FsckArgs(grace_period, log_only, referenced, now))
          IN  /\ fs' = swept
              /\ fsck_log' = [runs |-> fsck_log.runs + 1,
                              grace_period |-> grace_period,
                              log_only |-> log_only,
                              after_kill |-> killed,
                              removed |-> DOMAIN fs \ DOMAIN swept]
    /\ UNCHANGED << coordinator_vars, util_vars, referenced, uuids, fs_pc, fs_frame, fs_result, killed >>

FsNext ==
    \/ FsTick
    \/ \E p \in Procs : FsInsertCall(p)
    \/ \E p \in Procs : FsCreateDirAll(p)
    \/ \E p \in Procs : FsCreateDir(p)
    \/ \E p \in Procs : FsDoInsert(p)
    \/ \E p \in Procs : FsDeleteCall(p)
    \/ \E p \in Procs : FsDeleteExists(p)
    \/ \E p \in Procs : FsDeleteRename(p)
    \/ \E p \in Procs : FsDeleteFile(p)
    \/ \E p \in Procs : FsDeleteRemoveDir(p)
    \/ \E p \in Procs : FsGetCall(p)
    \/ \E p \in Procs : FsGetExists(p)
    \/ \E p \in Procs : FsGetOpenData(p)
    \/ \E p \in Procs : FsGetOpenMetadata(p)
    \/ FsKill
    \/ FsFsck

FsSpec == FsInit /\ [][FsNext]_vars

(***************************************************************************)
(* One ValidatingHttpBody and its consumer: downloader.get has returned    *)
(* the Blob of a response, and the consumer polls its data stream item by  *)
(* item, beyond the end of the stream as well.                             *)
(***************************************************************************)
RECURSIVE ChunksUpTo(_)
ChunksUpTo(n) ==
    IF n = 0 THEN { << >> }
    ELSE LET shorter == ChunksUpTo(n - 1)
         IN  shorter \cup { Append(s, b) : s \in { t \in shorter : Len(t) = n - 1 },
                                           b \in StreamBytes }

\* the bodies an upstream sends, one byte per chunk
StreamBodies == ChunksUpTo(MaxChunks)

\* the responses with well-formed digest headers, or none
StreamResponses ==
    [connected : {TRUE},
     status : {200},
     sha1 : {NoSha1Header} \cup { Header(TRUE, TRUE, Sha1Digest(b)) : b \in StreamBodies },
     md5 : {NoMd5Header} \cup { Header(TRUE, TRUE, Md5Digest(b)) : b \in StreamBodies }]

\* the polls of one consumer: past the last chunk, the end and two more
MaxPolls == MaxChunks + 3

StreamInit ==
    /\ CoordinatorInit
    /\ FsIdle
    /\ PathIdle
    /\ HeaderIdle
    /\ StoreIdle
    /\ \E resp \in StreamResponses, chunks \in StreamBodies, fails \in BOOLEAN :
          /\ response = resp
          /\ upstream_body = Body(chunks, fails)
          /\ downloader_get(resp).ok
          /\ validating_body = receive(Unwrap(downloader_get(resp).val).data, chunks, fails)
    /\ received = << >>

\* the consumer polls the stream once: data.next().await
StreamPoll ==
    /\ Len(received) < MaxPolls
    /\ LET polled == poll_next(validating_body)
       IN  /\ received' = Append(received, polled.item)
           /\ validating_body' = polled.stream
    /\ UNCHANGED << coordinator_vars, fs_vars, store_vars, path_vars, header_vars,
                    response, upstream_body >>

StreamNext == StreamPoll

StreamSpec == StreamInit /\ [][StreamNext]_vars

(***************************************************************************)
(* paths.rs and its callers: a reference is formatted with as_maven_path   *)
(* and the path parsed back, a repository path is parsed with              *)
(* parse_maven_path, a file name with parse_maven_filename.                *)
(***************************************************************************)
GroupIds == { << "o", "r", "g", ".", "f", "o", "o" >>, << "g" >> }
ArtifactIds == { << "b", "a", "r" >>, << "a" >> }
ReleaseVersions == { << "1", ".", "2", ".", "3" >>, << "1", ".", "0", ".", "0" >> }
SnapshotVersions == { << "1", ".", "2", ".", "3", "-", "S", "N", "A", "P", "S", "H", "O", "T" >> }
Timestamps == { << "2", "0", "2", "4", "0", "1", "1", "5", ".", "1", "0", "1", "5", "3", "0" >> }
BuildNumbers == { None, Some(7) }
Classifiers == { Unclassified, Classified(<< "c", "l", "a" >>), Classified(<< "a", "-", "b" >>) }
FileExtensions == { << ".", "j", "a", "r" >>, << ".", "p", "o", "m" >> }

MavenVersions ==
    { Release(v) : v \in ReleaseVersions }
        \cup { Snapshot(v, t, n) : v \in SnapshotVersions, t \in Timestamps, n \in BuildNumbers }

MavenArtifactRefs ==
    { MavenArtifactRef(MavenCoordinates(g, a, v), c, e) :
        g \in GroupIds, a \in ArtifactIds, v \in MavenVersions,
        c \in Classifiers, e \in FileExtensions }

ReleaseRefs == { r \in MavenArtifactRefs : r.coordinates.version.kind = "Release" }

\* the path of a release artifact in a repository:
\* <group-segments>/<artifactId>/<version>/<artifactId>-<version>[-classifier]<ext>
RepositoryPath(r) ==
    replace(r.coordinates.group_id, ".", "/") \o << "/" >>
        \o r.coordinates.artifact_id \o << "/" >>
        \o r.coordinates.version.version \o << "/" >>
        \o r.coordinates.artifact_id \o << "-" >> \o r.coordinates.version.version
        \o (IF r.classifier.kind = "Classified"
            THEN << "-" >> \o r.classifier.classifier ELSE << >>)
        \o r.file_extension

\* paths with fewer than three separators
ShortPaths ==
    { << "b", "a", "r", "-", "1", ".", "2", ".", "3", ".", "j", "a", "r" >>, << "1", ".", "2", ".", "3", "/", "b", "a", "r", "-", "1", ".", "2", ".", "3", ".", "j", "a", "r" >>, << "b", "a", "r", "/", "1", ".", "2", ".", "3", "/", "b", "a", "r", "-", "1", ".", "2", ".", "3", ".", "j", "a", "r" >> }

\* what follows the version string in the file name of a snapshot, before
\* the extension
SnapshotTails ==
    { << "-", "1", "2", "3", "4", "5", "6", "7", "8", ".", "1", "2", "3", "4", "5", "6" >>,
      << "-", "1", "2", "3", "4", "5", "6", "7", "8", ".", "1", "2", "3", "4", "5", "6", "-", "5" >>,
      << "-", "c", "l", "a", "-", "1", "2", "3", "4", "5", "6", "7", "8", ".", "1", "2", "3", "4", "5", "6", "-", "5" >>,
      << "-", "1", "1", "1", "1", "1", "1", "1", "1", ".", "1", "1", "1", "1", "1", "1", "-", "2", "2", "2", "2", "2", "2", "2", "2", ".", "2", "2", "2", "2", "2", "2", "-", "5" >>,
      << "-", "a", "-", "b", "-", "c", "-", "2", "2", "2", "2", "2", "2", "2", "2", ".", "2", "2", "2", "2", "2", "2", "-", "5" >>,
      << "-", "a", "-", "b", "-", "c", "-", "2", "2", "2", "2", "2", "2", "2", "2", ".", "2", "2", "2", "2", "2", "2" >>,
      << >>,
      << "-", "a", "-", "b", "-", "c" >>,
      << "-", "a", "-", "b", "-", "c", "-", "5" >>,
      << "-", "1", "2", "3", "4", "5", "6", "7", "8", ".", "1", "2", "3", "4", "5", "6", "-", "a" >>,
      << "-", "1", "2", "3", "4", "5", "6", "7", ".", "1", "2", "3", "4", "5", "6" >>,
      << "-", "1", "2", "3", "4", "5", "6", "7", "8", ".", "1", "2", "3", "4", "5", "6", "-" >>,
      << "x", "y", "z", "-", "1", "2", "3", "4", "5", "6", "7", "8", ".", "1", "2", "3", "4", "5", "6" >>,
      << "x", "y", "z", "-", "1", "2", "3", "4", "5", "6", "7", "8", ".", "1", "2", "3", "4", "5", "6", "-", "5" >> }

SnapshotFileInputs ==
    { FileInput(a, << "1", ".", "0", ".", "0", "-", "S", "N", "A", "P", "S", "H", "O", "T" >>, tail, e) :
        a \in ArtifactIds, tail \in SnapshotTails, e \in FileExtensions }

\* file names handed to parse_maven_filename together with an artifact id
\* and a version string they may or may not start with
RawFileInput(full_file_name, artifact_id, version_string) ==
    [file_name |-> full_file_name, artifact_id |-> artifact_id,
     version_string |-> version_string, tail |-> << >>, extension |-> << >>]
RawFileInputs ==
    { RawFileInput(<< "x", "x", "x", "x", "x", "x" >>, << "a" >>, << "1", ".", "0", ".", "0" >>),
      RawFileInput(<< >>, << "a" >>, << "1", ".", "0", ".", "0" >>),
      RawFileInput(<< "a", "-", "1", ".", "0", ".", "0", ".", "j", "a", "r" >>, << "b" >>, << "1", ".", "0", ".", "0" >>),
      RawFileInput(<< "a", "1", ".", "0", ".", "0", ".", "j", "a", "r" >>, << "a" >>, << "1", ".", "0", ".", "0" >>),
      RawFileInput(<< "a", "-", "1", ".", "0", ".", "0", ".", "j", "a", "r" >>, << "a" >>, << "1", ".", "0", ".", "1" >>),
      RawFileInput(<< "a", ".", "j", "a", "r" >>, << "a" >>, << "1", ".", "0", ".", "0" >>),
      RawFileInput(<< "a", "-", "1", ".", "0", ".", "0" >>, << "a" >>, << "1", ".", "0", ".", "0" >>),
      RawFileInput(<< "a", "_", "1", ".", "0", ".", "0", ".", "j", "a", "r" >>, << "a" >>, << "1", ".", "0", ".", "0" >>),
      RawFileInput(<< "a", ".", "1", ".", "0", ".", "0", ".", "j", "a", "r" >>, << "a" >>, << "1", ".", "0", ".", "0" >>),
      RawFileInput(<< "a", "b", "1", ".", "0", ".", "0", ".", "j", "a", "r" >>, << "a" >>, << "1", ".", "0", ".", "0" >>),
      RawFileInput(<< "b", "a", "r", "+", "1", ".", "2", ".", "3", "-", "c", "l", "a", ".", "j", "a", "r" >>, << "b", "a", "r" >>, << "1", ".", "2", ".", "3" >>),
      RawFileInput(<< "a", "_", "1", ".", "0", ".", "0", "-", "S", "N", "A", "P", "S", "H", "O", "T", "-", "1", "2", "3", "4", "5", "6", "7", "8", ".", "1", "2", "3", "4", "5", "6", ".", "j", "a", "r" >>, << "a" >>, << "1", ".", "0", ".", "0", "-", "S", "N", "A", "P", "S", "H", "O", "T" >>),
      RawFileInput(<< "a", "1", ".", "0", ".", "0", "-", "S", "N", "A", "P", "S", "H", "O", "T", "-", "1", "1", "1", "1", "1", "1", "1", "1", ".", "2", "2", "2", "2", "2", "2", ".", "j", "a", "r" >>, << "a" >>, << "1", ".", "0", ".", "0", "-", "S", "N", "A", "P", "S", "H", "O", "T" >>),
      RawFileInput(<< "a", "-", "1", ".", "0", ".", "0", "-", "S", "N", "A", "P", "S", "H", "O", "T", "-", "1", "1", "1", "1", "1", "1", "1", "1", ".", "2", "2", "2", "2", "2", "2", ".", "j", "a", "r" >>, << "a" >>, << "1", ".", "0", ".", "1", "-", "S", "N", "A", "P", "S", "H", "O", "T" >>),
      RawFileInput(<< "a", "-", "1", ".", "0", ".", "0", ".", "j", "a", "r" >>, << "a" >>, << "1", ".", "0", ".", "0" >>),
      RawFileInput(<< "x", "-", "y", "-", "1", ".", "0", ".", "0", ".", "j", "a", "r" >>, << "x", "-", "y" >>, << "1", ".", "0", ".", "0" >>),
      RawFileInput(<< "x", "-", "y", "-", "1", ".", "0", ".", "0", ".", "j", "a", "r" >>, << "x" >>, << "y", "-", "1", ".", "0", ".", "0" >>) }

\* version strings that do not end in -SNAPSHOT, and what may follow them
\* in a file name before the extension
NonSnapshotVersions ==
    { << "1", ".", "0", ".", "0" >>, << "y", "-", "1", ".", "0", ".", "0" >>, << "1", ".", "0", ".", "0", "-", "y" >>, << "1", ".", "0", ".", "0", "-", "s", "n", "a", "p", "s", "h", "o", "t" >>,
      << "1", ".", "0", ".", "0", "-", "S", "N", "A", "P", "S", "H", "O", "T", "-", "1" >>, << "1", ".", "0", ".", "0", "-", "S", "N", "A", "P", "S", "H", "O", "T", ".", "1" >> }
ReleaseRests ==
    { << >>, << "-", "c", "l", "a" >>, << "-", "c", "l", "a", "-", "r", "s", "t" >>, << "-", "c", "l", "a", ".", "r", "s", "t" >>, << "x", "y", "z" >>, << "-", "1", "2", "3", "4", "5", "6", "7", "8", ".", "1", "2", "3", "4", "5", "6", "-", "a" >> }
ReleaseFileInputs ==
    { FileInput(a, v, rest, e) :
        a \in ArtifactIds, v \in NonSnapshotVersions, rest \in ReleaseRests,
        e \in { << ".", "j", "a", "r" >>, << ".", "a", "b", "c" >> } }

PathInit ==
    /\ CoordinatorInit
    /\ FsIdle
    /\ StreamIdle
    /\ HeaderIdle
    /\ StoreIdle
    /\ \/ \E r \in MavenArtifactRefs :
             /\ maven_input = [kind |-> "ref", ref |-> r, file |-> NoFileInput]
             /\ maven_path = None
       \/ \E r \in ReleaseRefs :
             /\ maven_input = [kind |-> "path", ref |-> r, file |-> NoFileInput]
             /\ maven_path = Some(RepositoryPath(r))
       \/ \E path \in ShortPaths :
             /\ maven_input = [kind |-> "short path", ref |-> NoRefInput, file |-> NoFileInput]
             /\ maven_path = Some(path)
       \/ \E f \in SnapshotFileInputs :
             /\ maven_input = [kind |-> "file name", ref |-> NoRefInput, file |-> f]
             /\ maven_path = None
       \/ \E f \in ReleaseFileInputs :
             /\ maven_input = [kind |-> "release file name", ref |-> NoRefInput, file |-> f]
             /\ maven_path = None
       \/ \E f \in RawFileInputs :
             /\ maven_input = [kind |-> "raw file name", ref |-> NoRefInput, file |-> f]
             /\ maven_path = None
    /\ maven_parsed = None

\* the caller formats its reference
AsMavenPath ==
    /\ maven_input.kind = "ref"
    /\ maven_path = None
    /\ maven_path' = Some(as_maven_path(maven_input.ref))
    /\ UNCHANGED << coordinator_vars, fs_vars, store_vars, stream_vars, header_vars, maven_input, maven_parsed >>

\* the caller parses the path at hand
ParseMavenPath ==
    /\ maven_path # None
    /\ maven_parsed = None
    /\ maven_parsed' = Some(parse_maven_path(Unwrap(maven_path)))
    /\ UNCHANGED << coordinator_vars, fs_vars, store_vars, stream_vars, header_vars, maven_input, maven_path >>

\* the caller parses its file name
ParseMavenFilename ==
    /\ maven_input.kind \in {"file name", "release file name", "raw file name"}
    /\ maven_parsed = None
    /\ maven_parsed' = Some(parse_maven_filename(maven_input.file.file_name,
                                                 maven_input.file.artifact_id,
                                                 maven_input.file.version_string))
    /\ UNCHANGED << coordinator_vars, fs_vars, store_vars, stream_vars, header_vars, maven_input, maven_path >>

PathNext ==
    \/ AsMavenPath
    \/ ParseMavenPath
    \/ ParseMavenFilename

PathSpec == PathInit /\ [][PathNext]_vars

(***************************************************************************)
(* downloader.get and the digest headers of the response it was given      *)
(***************************************************************************)
Sha1HeaderNames == {"x-checksum-sha1", "x-goog-meta-checksum-sha1", "etag"}
Md5HeaderNames == {"x-checksum-md5", "x-goog-meta-checksum-md5"}

\* header values: the SHA-1 of the empty body, another SHA-1 in upper case,
\* the first in quotes, 42 hex digits, 40 characters that are not all hex
\* digits, a weak entity tag, and the empty value
Sha1HeaderValues ==
    { << "d", "a", "3", "9", "a", "3", "e", "e", "5", "e", "6", "b", "4", "b", "0", "d", "3", "2", "5", "5", "b", "f", "e", "f", "9", "5", "6", "0", "1", "8", "9", "0", "a", "f", "d", "8", "0", "7", "0", "9" >>,
      << "3", "5", "6", "A", "1", "9", "2", "B", "7", "9", "1", "3", "B", "0", "4", "C", "5", "4", "5", "7", "4", "D", "1", "8", "C", "2", "8", "D", "4", "6", "E", "6", "3", "9", "5", "4", "2", "8", "A", "B" >>,
      << "\"", "d", "a", "3", "9", "a", "3", "e", "e", "5", "e", "6", "b", "4", "b", "0", "d", "3", "2", "5", "5", "b", "f", "e", "f", "9", "5", "6", "0", "1", "8", "9", "0", "a", "f", "d", "8", "0", "7", "0", "9", "\"" >>,
      << "0", "0", "d", "a", "3", "9", "a", "3", "e", "e", "5", "e", "6", "b", "4", "b", "0", "d", "3", "2", "5", "5", "b", "f", "e", "f", "9", "5", "6", "0", "1", "8", "9", "0", "a", "f", "d", "8", "0", "7", "0", "9" >>,
      << "g", "a", "3", "9", "a", "3", "e", "e", "5", "e", "6", "b", "4", "b", "0", "d", "3", "2", "5", "5", "b", "f", "e", "f", "9", "5", "6", "0", "1", "8", "9", "0", "a", "f", "d", "8", "0", "7", "0", "9" >>,
      << "W", "/", "\"", "1", "a", "2", "b", "\"" >>,
      << >> }
Md5HeaderValues ==
    { << "d", "4", "1", "d", "8", "c", "d", "9", "8", "f", "0", "0", "b", "2", "0", "4", "e", "9", "8", "0", "0", "9", "9", "8", "e", "c", "f", "8", "4", "2", "7", "e" >>,
      << "d", "a", "3", "9", "a", "3", "e", "e", "5", "e", "6", "b", "4", "b", "0", "d", "3", "2", "5", "5", "b", "f", "e", "f", "9", "5", "6", "0", "1", "8", "9", "0", "a", "f", "d", "8", "0", "7", "0", "9" >> }

HeaderMaps ==
    { h \in UNION { [names -> Sha1HeaderValues \cup Md5HeaderValues] :
                      names \in SUBSET (Sha1HeaderNames \cup Md5HeaderNames) } :
        /\ \A name \in DOMAIN h \cap Sha1HeaderNames : h[name] \in Sha1HeaderValues
        /\ \A name \in DOMAIN h \cap Md5HeaderNames : h[name] \in Md5HeaderValues }

HeaderInit ==
    /\ CoordinatorInit
    /\ FsIdle
    /\ StreamIdle
    /\ PathIdle
    /\ StoreIdle
    /\ response_headers \in HeaderMaps
    /\ downloaded = None

\* downloader.get returns for the response with these headers
HeaderGet ==
    /\ downloaded = None
    /\ downloaded' = Some(get_validators(response_headers))
    /\ UNCHANGED << coordinator_vars, fs_vars, store_vars, stream_vars, path_vars, response_headers >>

HeaderNext == HeaderGet

HeaderSpec == HeaderInit /\ [][HeaderNext]_vars

(***************************************************************************)
(* The plugins of DummyRemoteRepoMetadataStore (remote_repo.rs)            *)
(***************************************************************************)
\* MavenPluginMetadata
MavenPluginMetadata(name, prefix, artifact_id) ==
    [name |-> name, prefix |-> prefix, artifact_id |-> artifact_id]

\* HashMap::values collected: the values in the order the map iterates in,
\* which the map does not promise; every order is one the call can produce
values(m) ==
    { [i \in 1..Cardinality(DOMAIN m) |-> m[order[i]]] :
        order \in { o \in [1..Cardinality(DOMAIN m) -> DOMAIN m] :
                      \A i, j \in 1..Cardinality(DOMAIN m) : o[i] = o[j] => i = j } }

\* register_plugin that takes an occupied group entry for an occupied plugin entry
register_plugin_by_group(map, group_id, plugin_metadata) ==
    IF group_id \in DOMAIN map
    THEN [result |-> Ok("Updated"),
          plugins |-> map_insert(map, group_id,
                          map_insert(map[group_id], plugin_metadata.artifact_id,
                                     plugin_metadata))]
    ELSE [result |-> Ok("Inserted"),
          plugins |-> map_insert(map, group_id,
                          map_insert(EmptyMap, plugin_metadata.artifact_id,
                                     plugin_metadata))]

\* DummyRemoteRepoMetadataStore::register_plugin: the result and the map after
register_plugin(map, group_id, plugin_metadata) ==
    IF group_id \in DOMAIN map
    THEN \* Entry::Occupied
         LET prev == map_get(map[group_id], plugin_metadata.artifact_id)
         IN  [result |-> Ok(IF IsSome(prev) THEN "Updated" ELSE "Inserted"),
              plugins |-> map_insert(map, group_id,
                              map_insert(map[group_id], plugin_metadata.artifact_id,
                                         plugin_metadata))]
    ELSE \* Entry::Vacant
         [result |-> Ok("Inserted"),
          plugins |-> map_insert(map, group_id,
                          map_insert(EmptyMap, plugin_metadata.artifact_id,
                                     plugin_metadata))]

\* unregister_plugin that reports the entry and leaves it in the map
unregister_plugin_keeping_entry(map, group_id, artifact_id) ==
    IF group_id \notin DOMAIN map
    THEN [result |-> Ok(FALSE), plugins |-> map]
    ELSE [result |-> Ok(IsSome(map_get(map[group_id], artifact_id))),
          plugins |-> map]

\* DummyRemoteRepoMetadataStore::unregister_plugin: the result and the map after
unregister_plugin(map, group_id, artifact_id) ==
    IF group_id \notin DOMAIN map
    THEN [result |-> Ok(FALSE), plugins |-> map]
    ELSE [result |-> Ok(IsSome(map_get(map[group_id], artifact_id))),
          plugins |-> map_insert(map, group_id, map_remove(map[group_id], artifact_id))]

\* DummyRemoteRepoMetadataStore::get_plugins: the results the call can produce
get_plugins(map, group_id) ==
    IF group_id \notin DOMAIN map
    THEN { Ok(<< >>) }
    ELSE { Ok(list) : list \in values(map[group_id]) }

PluginNames == { << "O", "n", "e" >>, << "T", "w", "o" >> }
PluginPrefixes == { << "p" >> }
PluginMetadatas ==
    { MavenPluginMetadata(name, prefix, artifact_id) :
        name \in PluginNames, prefix \in PluginPrefixes, artifact_id \in ArtifactIds }

\* a call of a plugin operation with what it returned
PluginCall(op, group_id, artifact_id, plugin_metadata, returned) ==
    [op |-> op, group_id |-> group_id, artifact_id |-> artifact_id,
     plugin_metadata |-> plugin_metadata, returned |-> returned]

PluginInit == CoordinatorInit /\ FsIdle /\ UtilIdle

\* RemoteMavenRepo::register_plugin, which passes the call on to the store
RegisterPlugin ==
    \E group_id \in GroupIds, plugin_metadata \in PluginMetadatas :
        LET registered == register_plugin(plugins, group_id, plugin_metadata)
        IN  /\ Len(plugin_calls) < MaxStoreOps
            /\ plugins' = registered.plugins
            /\ plugin_calls' = Append(plugin_calls,
                   PluginCall("register_plugin", group_id, plugin_metadata.artifact_id,
                              Some(plugin_metadata), registered.result))
            /\ UNCHANGED << coordinator_vars, fs_vars, stream_vars, path_vars,
                            header_vars, versions_vars >>

\* RemoteMavenRepo::unregister_plugin, which passes the call on to the store
UnregisterPlugin ==
    \E group_id \in GroupIds, artifact_id \in ArtifactIds :
        LET unregistered == unregister_plugin(plugins, group_id, artifact_id)
        IN  /\ Len(plugin_calls) < MaxStoreOps
            /\ plugins' = unregistered.plugins
            /\ plugin_calls' = Append(plugin_calls,
                   PluginCall("unregister_plugin", group_id, artifact_id, None,
                              unregistered.result))
            /\ UNCHANGED << coordinator_vars, fs_vars, stream_vars, path_vars,
                            header_vars, versions_vars >>

\* RemoteMavenRepo::get_group_metadata, whose plugins are what get_plugins returns
GetPlugins ==
    \E group_id \in GroupIds :
        \E returned \in get_plugins(plugins, group_id) :
            /\ Len(plugin_calls) < MaxStoreOps
            /\ plugin_calls' = Append(plugin_calls,
                   PluginCall("get_plugins", group_id, << >>, None, returned))
            /\ UNCHANGED << coordinator_vars, fs_vars, stream_vars, path_vars,
                            header_vars, versions_vars, plugins >>

PluginNext == RegisterPlugin \/ UnregisterPlugin \/ GetPlugins

PluginSpec == PluginInit /\ [][PluginNext]_vars

(***************************************************************************)
(* The recorded versions of DummyRemoteRepoMetadataStore (remote_repo.rs)  *)
(***************************************************************************)
\* MavenArtifactMetadata
MavenArtifactMetadata(latest_version, release_version, versions, last_updated) ==
    [latest_version |-> latest_version, release_version |-> release_version,
     versions |-> versions, last_updated |-> last_updated]

\* a <= b in the order of String, for strings of digits
RECURSIVE string_leq(_, _)
string_leq(a, b) ==
    IF a = << >> THEN TRUE
    ELSE IF b = << >> THEN FALSE
    ELSE IF a[1] = b[1] THEN string_leq(Tail(a), Tail(b))
    ELSE DigitValue(a[1]) < DigitValue(b[1])

\* Iterator::max_by_key(|(_, timestamp)| timestamp): None for no element, the
\* last of the elements with the greatest timestamp otherwise
max_by_key(recorded) ==
    IF recorded = << >> THEN None
    ELSE Some(recorded[CHOOSE i \in 1..Len(recorded) :
                  /\ \A j \in 1..Len(recorded) : string_leq(recorded[j][2], recorded[i][2])
                  /\ \A j \in (i + 1)..Len(recorded) : recorded[j][2] # recorded[i][2]])

\* matches!(version, MavenVersion::Release(_)) on a recorded pair
is_release(pair) == pair[1].kind = "Release"

\* the result of get_artifact_metadata: Ok with the optional record, or the
\* panic of an unwrap
MetadataOk(metadata) == [kind |-> "ok", metadata |-> metadata]
MetadataPanic == [kind |-> "panic", metadata |-> None]

\* DummyRemoteRepoMetadataStore::get_artifact_metadata
get_artifact_metadata(map, group_id, artifact_id) ==
    IF group_id \notin DOMAIN map THEN MetadataOk(None)
    ELSE IF artifact_id \notin DOMAIN map[group_id] THEN MetadataOk(None)
    ELSE LET versions == map[group_id][artifact_id]
         IN  IF versions = << >> THEN MetadataOk(None)
             ELSE LET latest == max_by_key(versions)
                      release == max_by_key(SelectSeq(versions, is_release))
                  IN  IF release = None
                      THEN MetadataPanic
                      ELSE MetadataOk(Some(MavenArtifactMetadata(
                               Unwrap(latest)[1],
                               Unwrap(release)[1],
                               [i \in 1..Len(versions) |-> versions[i][1]],
                               Unwrap(latest)[2])))

\* timestamps of recorded versions, yyyyMMddHHmmss
RecordTimestamps == { << "2", "0", "2", "4", "0", "1", "1", "5", "1", "0", "1", "5", "3", "0" >>, << "2", "0", "2", "4", "0", "1", "1", "6", "0", "0", "0", "0", "0", "0" >> }

RECURSIVE VersionLists(_)
VersionLists(n) ==
    IF n = 0 THEN { << >> }
    ELSE LET shorter == VersionLists(n - 1)
         IN  shorter \cup
             { Append(l, << version, timestamp >>) :
                 l \in { t \in shorter : Len(t) = n - 1 },
                 version \in MavenVersions, timestamp \in RecordTimestamps }

\* artifact_versions of a store: empty, a group without artifacts, and an
\* artifact with the versions recorded for it
ArtifactVersionMaps ==
    { EmptyMap, map_insert(EmptyMap, << "g" >>, EmptyMap) }
        \cup { map_insert(EmptyMap, << "g" >>, map_insert(EmptyMap, << "a" >>, recorded)) :
                 recorded \in VersionLists(MaxVersions) }

MetadataInit ==
    /\ CoordinatorInit
    /\ FsIdle
    /\ StreamIdle
    /\ PathIdle
    /\ HeaderIdle
    /\ PluginIdle
    /\ artifact_versions \in ArtifactVersionMaps
    /\ metadata_query \in { Some([group_id |-> g, artifact_id |-> a]) :
                              g \in GroupIds, a \in ArtifactIds }
    /\ artifact_metadata = None

\* RemoteMavenRepo::get_artifact_metadata, which passes the call on to the store
GetArtifactMetadata ==
    /\ artifact_metadata = None
    /\ artifact_metadata' =
           Some(get_artifact_metadata(artifact_versions,
                                      Unwrap(metadata_query).group_id,
                                      Unwrap(metadata_query).artifact_id))
    /\ UNCHANGED << coordinator_vars, fs_vars, stream_vars, path_vars, header_vars,
                    plugin_vars, artifact_versions, metadata_query >>

MetadataNext == GetArtifactMetadata

MetadataSpec == MetadataInit /\ [][MetadataNext]_vars

(***************************************************************************)
(* Properties of the cache coordinator                                     *)
(***************************************************************************)
\* the handler p takes the step that leaves the given place of get_artifact
Leaves(p, place) == pc[p] = place /\ pc'[p] # place

shared_vars == << local_artifacts, failed_downloads, data, next_key >>

\* at most the retry window has passed since the last call for r that failed
\* in downloader.get returned
WithinRetryWindow(r) ==
    /\ r \in DOMAIN failed_at
    /\ now - failed_at[r] <= RetryWindowSecs * UnitsPerSec

\* C1: once a get_artifact(R) call has returned Ok through the Download
\* branch, every call for R that is decided afterwards is decided Local with
\* the key registered for R, goes on to the local read only (it never reaches
\* downloader.get, so it issues no upstream request) and returns the blob
\* stored under that key.
C1_LaterCallsServedLocally ==
    [][\A p \in Procs :
          /\ (Leaves(p, "decide") /\ artifact_ref[p] \in succeeded) =>
                /\ decision'[p].kind = "Local"
                /\ Some(decision'[p].id) = map_get(local_artifacts, artifact_ref[p])
                /\ pc'[p] = "local_get"
          /\ (Leaves(p, "local_get") /\ artifact_ref[p] \in succeeded) =>
                /\ result'[p].kind = "ok"
                /\ result'[p].blob =
                      Some(Blob(data[decision[p].id].bytes,
                                Some(data[decision[p].id].md5),
                                Some(data[decision[p].id].sha1)))
                /\ pc'[p] = "idle"
                /\ UNCHANGED shared_vars
      ]_vars

\* a later call for a reference that was downloaded successfully has been decided
C1_Witness ==
    \E p \in Procs : pc[p] = "local_get" /\ artifact_ref[p] \in succeeded

\* C2: when the upstream answers with a non-2xx status, downloader.get
\* returns an error: the call goes on to register_failed_download and never
\* to blob_storage.insert.
C2_Non2xxFailsDownload ==
    \A p \in Procs :
        (IsSome(upstream_status[p]) /\ Unwrap(upstream_status[p]) \notin 200..299)
            => pc[p] = "register_failed"

\* C3 as stated: after a call for R has failed in the download step, a call
\* for R decided within the retry window is decided Fail.
C3_Original ==
    [][\A p \in Procs :
          (Leaves(p, "decide") /\ WithinRetryWindow(artifact_ref[p])) =>
              (decision'[p] = Fail /\ pc'[p] = "fail")
      ]_vars

\* C3 (amended): after a call for R has failed in the download step, a call
\* for R decided within the retry window is decided Fail, unless R has been
\* registered in the local-artifacts index in the meantime; a call decided
\* Fail returns an error without reaching downloader.get.
C3_RecentFailureFailsFast ==
    [][\A p \in Procs :
          /\ (/\ Leaves(p, "decide")
              /\ WithinRetryWindow(artifact_ref[p])
              /\ artifact_ref[p] \notin DOMAIN local_artifacts) =>
                (decision'[p] = Fail /\ pc'[p] = "fail")
          /\ Leaves(p, "fail") =>
                (result'[p].kind = "err" /\ pc'[p] = "idle")
      ]_vars

\* a call was decided Fail after an earlier call for its reference failed in
\* the download step
C3_Witness ==
    \E p \in Procs :
        /\ pc[p] = "fail"
        /\ WithinRetryWindow(artifact_ref[p])

\* C4: when more than the retry window has passed since the recorded failure
\* of R (and R is not local), decide_get_artifact(R) completes, removes the
\* failure record and returns Download.
C4_ExpiredFailureIsEvicted ==
    [][\A p \in Procs :
          (/\ Leaves(p, "decide")
           /\ artifact_ref[p] \notin DOMAIN local_artifacts
           /\ artifact_ref[p] \in DOMAIN failed_downloads
           /\ RetryWindowSecs < as_secs(now - failed_downloads[artifact_ref[p]])) =>
              /\ decision'[p] = Download
              /\ pc'[p] = "download"
              /\ artifact_ref[p] \notin DOMAIN failed_downloads'
      ]_vars

\* C5: when the body a call has received in full does not have the SHA-1 the
\* response advertised, the call returns an error from blob_storage.insert:
\* it never reaches register_artifact, and the blob store holds nothing of
\* that download.
C5_Sha1MismatchStoresNothing ==
    [][\A p \in Procs :
          (Leaves(p, "insert") /\ sha1_mismatch'[p]) =>
              /\ result'[p].kind = "err"
              /\ pc'[p] = "idle"
              /\ data' = data
              /\ local_artifacts' = local_artifacts
      ]_vars

\* a call has returned after its body failed the SHA-1 check
C5_Witness ==
    \E p \in Procs : sha1_mismatch[p] /\ pc[p] = "idle" /\ result[p].kind = "err"

\* C6: every call that fails inside the Download branch has recorded the
\* failure of its reference when it returns.
C6_EveryDownloadFailureIsRecorded ==
    [][\A p \in Procs :
          (/\ pc[p] \in {"download", "insert", "register", "get", "register_failed"}
           /\ pc'[p] = "idle"
           /\ result'[p].kind = "err") =>
              map_get(failed_downloads', artifact_ref[p]) = Some(now)
      ]_vars

\* C7: a call decided Fail returns an error and changes nothing: neither the
\* decision nor the return touches the blob store or either index, the
\* recorded failure time included, and the call never reaches downloader.get.
C7_FailHasNoSideEffects ==
    [][\A p \in Procs :
          /\ (Leaves(p, "decide") /\ decision'[p] = Fail) =>
                (pc'[p] = "fail" /\ UNCHANGED shared_vars)
          /\ Leaves(p, "fail") =>
                /\ result'[p].kind = "err"
                /\ pc'[p] = "idle"
                /\ UNCHANGED shared_vars
      ]_vars

\* a call decided Fail has returned, later than the failure was recorded
C7_Witness ==
    \E p \in Procs :
        /\ pc[p] = "idle"
        /\ result[p].err = "TODO skipping due to a previous failure to download"
        /\ \E r \in DOMAIN failed_downloads : failed_downloads[r] < now

\* C8: decide_get_artifact returns Local(key) whenever R is in the
\* local-artifacts index, whether or not a failure record exists, and
\* Download when R is in neither index; in both cases it changes no index.
C8_DecisionOrder ==
    [][\A p \in Procs :
          /\ (Leaves(p, "decide") /\ artifact_ref[p] \in DOMAIN local_artifacts) =>
                /\ decision'[p] = Local(local_artifacts[artifact_ref[p]])
                /\ UNCHANGED << local_artifacts, failed_downloads >>
          /\ (/\ Leaves(p, "decide")
              /\ artifact_ref[p] \notin DOMAIN local_artifacts
              /\ artifact_ref[p] \notin DOMAIN failed_downloads) =>
                /\ decision'[p] = Download
                /\ UNCHANGED << local_artifacts, failed_downloads >>
      ]_vars

\* a call was decided Local although a failure record exists for its reference
C8_Witness ==
    \E p \in Procs :
        /\ pc[p] = "local_get"
        /\ artifact_ref[p] \in DOMAIN failed_downloads

\* C9: no artifact reference is in both the local-artifacts index and the
\* failed-downloads index.
C9_IndexesDisjoint ==
    DOMAIN local_artifacts \cap DOMAIN failed_downloads = {}

\* C10: every key in the local-artifacts index identifies a blob that
\* blob_storage.get returns, and a call is about to register only a key under
\* which insert has stored a blob.
C10_RegisteredKeysAreStored ==
    /\ \A r \in DOMAIN local_artifacts :
          IsSome(TransientBlobStorage_get(data, local_artifacts[r]))
    /\ \A p \in Procs :
          pc[p] = "register" => IsSome(TransientBlobStorage_get(data, key[p]))

\* an artifact is registered
C10_Witness ==
    DOMAIN local_artifacts # {}

\* C11: two get_artifact(R) calls that run concurrently for an uncached R are
\* both decided Download and both complete.  Every insert returns a key that
\* was not in the blob store and that no other call holds; register_artifact
\* leaves the index holding the key of the call that ran it, so the last one
\* wins; and no step of the coordinator removes a blob, so the superseded key
\* stays in the blob store.
C11_ConcurrentDownloadsLastRegisterWins ==
    [][\A p \in Procs :
          /\ (Leaves(p, "insert") /\ pc'[p] = "register") =>
                /\ key'[p] \notin DOMAIN data
                /\ key'[p] \in DOMAIN data'
                /\ \A q \in Procs \ {p} : pc[q] \in {"register", "get"} => key[q] # key'[p]
          /\ Leaves(p, "register") =>
                /\ map_get(local_artifacts', artifact_ref[p]) = Some(key[p])
                /\ pc'[p] = "get"
          /\ Leaves(p, "get") => result'[p].kind = "ok"
          /\ \A k \in DOMAIN data : k \in DOMAIN data' /\ data'[k] = data[k]
      ]_vars

\* both concurrent calls have returned Ok, two blobs are stored, and the index
\* holds one of the two keys
C11_Witness ==
    /\ \A p \in Procs : pc[p] = "idle" /\ result[p].kind = "ok"
    /\ calls = Cardinality(Procs)
    /\ Cardinality(DOMAIN data) = 2
    /\ \E r \in DOMAIN local_artifacts :
          /\ local_artifacts[r] \in DOMAIN data
          /\ \E k \in DOMAIN data : k # local_artifacts[r]

\* the key registered for r has no blob in the blob store
Dangling(r) ==
    /\ r \in DOMAIN local_artifacts
    /\ ~IsSome(TransientBlobStorage_get(data, local_artifacts[r]))

\* C12 as stated: once a get_artifact(R) call has returned the dangling-
\* reference error, and nothing outside the coordinator has repaired the
\* index, every call for R decided later is decided Local with a key that
\* has no blob, so it fails the same way.
C12_Original ==
    [][\A p \in Procs :
          (/\ Leaves(p, "decide")
           /\ \E q \in Procs \ {p} :
                 pc[q] = "idle" /\ result[q].err = "TODO local blob not found") =>
              /\ decision'[p].kind = "Local"
              /\ decision'[p].id \notin DOMAIN data
      ]_vars

\* C12 (amended): a call for R decided while the key registered for R has no
\* blob is decided Local; a call decided Local whose blob is gone returns the
\* dangling-reference error without reaching downloader.get and without
\* changing either index or the blob store.  Later calls therefore fail the
\* same way for as long as the index entry of R is not replaced.
C12_DanglingLocalReference ==
    [][\A p \in Procs :
          /\ (Leaves(p, "decide") /\ Dangling(artifact_ref[p])) =>
                /\ decision'[p] = Local(local_artifacts[artifact_ref[p]])
                /\ pc'[p] = "local_get"
                /\ UNCHANGED shared_vars
          /\ (Leaves(p, "local_get") /\ decision[p].id \notin DOMAIN data) =>
                /\ result'[p] = Returned(Err("TODO local blob not found"))
                /\ pc'[p] = "idle"
                /\ UNCHANGED shared_vars
      ]_vars

\* a call has returned the dangling-reference error and the index still
\* holds the key without a blob
C12_Witness ==
    /\ Dangling("r1")
    /\ \E p \in Procs : pc[p] = "idle" /\ result[p].err = "TODO local blob not found"

(***************************************************************************)
(* Properties of FsBlobStorage                                             *)
(***************************************************************************)
\* the caller p takes the step that leaves the given place of its operation
\* (the kill of the process is no step of the caller)
FsLeaves(p, place) == fs_pc[p] = place /\ fs_pc'[p] # place /\ killed' = killed

\* the operation of the caller p returns in this step
FsReturns(p) ==
    fs_pc[p] # "idle" /\ fs_pc'[p] = "idle" /\ fs_result'[p].kind # "killed"

\* this step is an fsck run
IsFsckRun == fsck_log'.runs # fsck_log.runs

\* the directories with a .inserting or .deleting suffix
TempDirs(tree) ==
    { path \in DOMAIN tree :
        /\ tree[path].is_dir
        /\ file_name(path).uuid # 0
        /\ file_name(path).rest \in {".inserting", ".deleting"} }
\* the directories named exactly by a UUID
BlobDirs(tree) ==
    { path \in DOMAIN tree :
        tree[path].is_dir /\ file_name(path).uuid # 0 /\ file_name(path).rest = "" }
\* a blob directory that has its data file and its metadata.json
IsComplete(tree, path) ==
    /\ push(path, DataName) \in DOMAIN tree
    /\ push(path, MetadataName) \in DOMAIN tree

\* C13: an insert that has created its staging directory returns an error
\* only when its input stream yields one: for a finite, error-free stream it
\* returns Ok(k), and the committed directory of k then holds the streamed
\* bytes and their digests, which get(k) returns.
C13_InsertOfErrorFreeStreamSucceeds ==
    [][\A p \in Procs :
          (/\ FsReturns(p)
           /\ fs_frame[p].op = "insert"
           /\ fs_pc[p] \notin {"create_dir_all", "create_dir"}) =>
              \/ /\ fs_result'[p].kind = "err"
                 /\ fs_result'[p].err = "upstream i/o error"
              \/ /\ fs_result'[p].kind = "ok"
                 /\ IsComplete(fs', directory_path_for_key(fs_frame[p].key))
      ]_vars

\* C14: whatever insert, get and delete have done so far, whichever of their
\* steps is under way and whether or not the process was killed in between,
\* every directory named exactly by a UUID holds both data and metadata.json.
C14_CommittedDirsAreComplete ==
    \A path \in BlobDirs(fs) : IsComplete(fs, path)

\* the process was killed in the middle of a delete: the .deleting directory
\* has lost one of its two files, next to a committed directory
C14_Witness ==
    /\ killed
    /\ BlobDirs(fs) # {}
    /\ \E path \in TempDirs(fs) : Cardinality(read_dir(fs, path)) = 1

\* C15: once an insert has returned an error after its staging directory was
\* created, no directory of its key is left: neither <uuid>.inserting nor
\* <uuid>.
C15_FailedInsertLeavesNoDirectory ==
    [][\A p \in Procs :
          (/\ FsReturns(p)
           /\ fs_frame[p].op = "insert"
           /\ fs_pc[p] \notin {"create_dir_all", "create_dir"}
           /\ fs_result'[p].kind = "err") =>
              /\ ~try_exists(fs', directory_path_for_key(fs_frame[p].key))
              /\ ~try_exists(fs', temp_path(directory_path_for_key(fs_frame[p].key),
                                            ".inserting"))
      ]_vars

\* neither the committed directory of k nor its .deleting sibling exists
Deleted(tree, k) ==
    /\ ~try_exists(tree, directory_path_for_key(k))
    /\ ~try_exists(tree, temp_path(directory_path_for_key(k), ".deleting"))

\* C16: delete(k) returns false and changes nothing when no committed
\* directory of k exists.  Otherwise it renames <uuid> to <uuid>.deleting
\* first, then removes the files and the directory and returns true, and
\* then neither directory exists; while neither exists get(k) returns none
\* and delete(k) returns false.  (A delete whose directory is taken away
\* under it, by another delete(k) or by fsck, propagates the not-found error
\* of the file-system call and changes nothing in that step.)
C16_DeleteRenamesThenRemoves ==
    [][\A p \in Procs :
          LET k == fs_frame[p].key
              directory_path == directory_path_for_key(k)
              deleting == temp_path(directory_path, ".deleting")
          IN  /\ (fs_frame[p].op = "delete" /\ FsLeaves(p, "delete_exists")) =>
                    /\ fs' = fs
                    /\ IF try_exists(fs, directory_path)
                       THEN fs_pc'[p] = "delete_rename"
                       ELSE fs_result'[p] = FsOk("delete", k, FALSE, None)
              /\ (fs_frame[p].op = "delete" /\ FsLeaves(p, "delete_rename")) =>
                    IF try_exists(fs, directory_path)
                    THEN /\ fs_pc'[p] = "delete_files"
                         /\ ~try_exists(fs', directory_path)
                         /\ { file_name(e) : e \in read_dir(fs', deleting) }
                               = { file_name(e) : e \in read_dir(fs, directory_path) }
                    ELSE /\ fs_result'[p] = FsErr("delete", k, "No such file or directory")
                         /\ fs' = fs
              /\ (fs_frame[p].op = "delete" /\ FsLeaves(p, "delete_files")) =>
                    IF try_exists(fs, deleting)
                    THEN /\ read_dir(fs, deleting) = {}
                         /\ fs_result'[p] = FsOk("delete", k, TRUE, None)
                         /\ Deleted(fs', k)
                    ELSE /\ fs_result'[p] = FsErr("delete", k, "No such file or directory")
                         /\ fs' = fs
              /\ (fs_frame[p].op = "get" /\ FsLeaves(p, "get_exists") /\ Deleted(fs, k)) =>
                    fs_result'[p] = FsOk("get", k, FALSE, None)
      ]_vars

\* a delete(k) has returned true and a second delete(k) has returned false
C16_Witness ==
    \E p, q \in Procs :
        /\ fs_result[p] = FsOk("delete", fs_result[p].key, TRUE, None)
        /\ fs_result[q] = FsOk("delete", fs_result[p].key, FALSE, None)
        /\ Deleted(fs, fs_result[p].key)

\* C17: whatever runs next to it, a get(k) that has returned has returned a
\* complete blob (the bytes of a committed data file with the digests of
\* exactly those bytes), none, or a not-found error.
C17_GetNeverReturnsPartialBlob ==
    \A p \in Procs :
        (fs_result[p].op = "get" /\ fs_result[p].kind \notin {"none", "killed"}) =>
            \/ fs_result[p] = FsOk("get", fs_result[p].key, FALSE, None)
            \/ /\ fs_result[p].kind = "ok"
               /\ fs_result[p].found
               /\ LET blob == Unwrap(fs_result[p].blob)
                  IN  /\ blob.data = StoredBytes
                      /\ blob.sha1 = Sha1Digest(blob.data)
                      /\ blob.md5 = Md5Digest(blob.data)
            \/ fs_result[p] = FsErr("get", fs_result[p].key, "No such file or directory")

\* a get(k) has returned the not-found error next to a delete(k)
C17_Witness ==
    \E p, q \in Procs :
        /\ fs_result[p] = FsErr("get", fs_result[p].key, "No such file or directory")
        /\ \/ fs_frame[q].op = "delete" /\ fs_frame[q].key = fs_result[p].key
           \/ fs_result[q].op = "delete" /\ fs_result[q].key = fs_result[p].key

\* no .inserting or .deleting directory, and no UUID-named directory of a key
\* that is not referenced
FsClean(tree, refs) ==
    /\ TempDirs(tree) = {}
    /\ \A path \in BlobDirs(tree) : file_name(path).uuid \in refs

\* C18: after the process was killed in the middle of inserts and deletes, an
\* fsck run with grace 0 and log_only false, with no operation under way,
\* leaves no .inserting or .deleting directory and no UUID-named directory
\* whose key is not referenced.
C18_FsckAfterKillCleansUp ==
    [][(/\ IsFsckRun
        /\ killed
        /\ \A p \in Procs : fs_pc[p] = "idle"
        /\ fsck_log'.grace_period = 0
        /\ ~fsck_log'.log_only) => FsClean(fs', referenced)
      ]_vars

\* fsck with grace 0 has run after the kill and removed a .deleting
\* directory together with the file that was left in it
C18_Witness ==
    /\ fsck_log.runs > 0
    /\ fsck_log.after_kill
    /\ fsck_log.grace_period = 0
    /\ ~fsck_log.log_only
    /\ \E path \in fsck_log.removed :
          /\ file_name(path).rest = ".deleting"
          /\ \E name \in {DataName, MetadataName} : push(path, name) \in fsck_log.removed
    /\ FsClean(fs, referenced)

\* C19: an fsck run with log_only false leaves every committed blob
\* directory of a referenced key as it is, its data and metadata.json
\* included, and removes every .inserting and .deleting directory that is
\* older than the grace period.
C19_FsckKeepsReferencedRemovesExpiredTemp ==
    [][(IsFsckRun /\ ~fsck_log'.log_only) =>
          /\ \A path \in BlobDirs(fs) :
                (IsComplete(fs, path) /\ file_name(path).uuid \in referenced) =>
                    \A x \in DOMAIN fs :
                        IsPrefix(path, x) => (x \in DOMAIN fs' /\ fs'[x] = fs[x])
          /\ \A path \in TempDirs(fs) :
                (now - fs[path].created > fsck_log'.grace_period) =>
                    path \notin DOMAIN fs'
      ]_vars

\* fsck with a grace period of one unit has removed a temp directory with
\* content that was older, and a referenced committed blob is still there
C19_Witness ==
    /\ fsck_log.runs > 0
    /\ fsck_log.grace_period = 1
    /\ ~fsck_log.log_only
    /\ \E path \in fsck_log.removed :
          /\ file_name(path).rest \in {".inserting", ".deleting"}
          /\ \E name \in {DataName, MetadataName} : push(path, name) \in fsck_log.removed
    /\ \E path \in BlobDirs(fs) :
          IsComplete(fs, path) /\ file_name(path).uuid \in referenced

\* C20: an fsck run with log_only true leaves the directory tree as it is.
C20_LogOnlyChangesNothing ==
    [][(IsFsckRun /\ fsck_log'.log_only) => fs' = fs]_vars

\* C21: fsck never removes a directory whose age is not greater than the
\* grace period, whatever its name and whether or not it is empty.
C21_FsckSkipsYoungDirectories ==
    [][IsFsckRun =>
          \A path \in DOMAIN fs :
              (fs[path].is_dir /\ now - fs[path].created <= fsck_log'.grace_period) =>
                  path \in DOMAIN fs'
      ]_vars

\* the directories an insert under way has created so far: the shard
\* directory and its <uuid>.inserting directory
UnderConstruction(p) ==
    IF fs_frame[p].op = "insert" /\ fs_pc[p] \in {"create_dir", "do_insert"}
    THEN { pop(directory_path_for_key(fs_frame[p].key)),
           temp_path(directory_path_for_key(fs_frame[p].key), ".inserting") }
         \cap DOMAIN fs
    ELSE {}

\* C22: fsck does not remove a shard directory or a .inserting directory
\* that an insert under way has created and is still constructing.
C22_FsckSparesInsertUnderWay ==
    [][IsFsckRun => \A p \in Procs : UnderConstruction(p) \subseteq DOMAIN fs']_vars

(***************************************************************************)
(* Properties of ValidatingHttpBody                                        *)
(***************************************************************************)
\* the item that carries the chunk b
ChunkItem(b) == Some(Ok(<< b >>))
\* the response advertises no SHA-1, or the SHA-1 of the body the upstream sends
Sha1Matches ==
    response.sha1.present => response.sha1.value = Sha1Digest(upstream_body.chunks)
Md5Matches ==
    response.md5.present => response.md5.value = Md5Digest(upstream_body.chunks)
\* the consumer has been given the upstream's chunks, unchanged and in the
\* upstream's order, as far as it has polled
ReceivedChunksInOrder ==
    \A i \in DOMAIN received :
        i <= Len(upstream_body.chunks) => received[i] = ChunkItem(upstream_body.chunks[i])
\* the items the consumer was given after the last chunk
Tail_received ==
    IF Len(received) > Len(upstream_body.chunks)
    THEN SubSeq(received, Len(upstream_body.chunks) + 1, Len(received))
    ELSE << >>

\* C23: when the body arrives in full and has the digests the response
\* advertises, the consumer is given every upstream chunk unchanged and in
\* upstream order, then end-of-stream, and never an error item.
C23_MatchingBodyIsPassedThrough ==
    (~upstream_body.fails /\ Sha1Matches /\ Md5Matches) =>
        /\ ReceivedChunksInOrder
        /\ \A i \in DOMAIN Tail_received : Tail_received[i] = None

\* a body of two chunks with the advertised SHA-1 has been read to its end
C23_Witness ==
    /\ response.sha1.present
    /\ ~upstream_body.fails /\ Sha1Matches /\ Md5Matches
    /\ Len(upstream_body.chunks) = 2
    /\ upstream_body.chunks[1] # upstream_body.chunks[2]
    /\ Len(received) = 3
    /\ received[3] = None

\* C24: when validation fails at the end of the body, the consumer is given
\* all chunks and then exactly one 'failed validation' error; when the
\* upstream yields an I/O error, the chunks before it and then that error.
\* From then on the stream is failed: every poll gives the error 'polling
\* from failed stream', never a chunk or end-of-stream, and its outcome
\* neither depends on the upstream body nor changes it.
C24_FailedStreamStaysFailed ==
    /\ ReceivedChunksInOrder
    /\ (~upstream_body.fails /\ ~(Sha1Matches /\ Md5Matches)) =>
          \A i \in DOMAIN Tail_received :
              Tail_received[i] = IF i = 1 THEN Some(Err("failed validation"))
                                 ELSE Some(Err("polling from failed stream"))
    /\ upstream_body.fails =>
          \A i \in DOMAIN Tail_received :
              Tail_received[i] = IF i = 1 THEN Some(Err("upstream i/o error"))
                                 ELSE Some(Err("polling from failed stream"))
    /\ validating_body.is_failed <=> (Tail_received # << >> /\ Tail_received[1] # None)
    /\ validating_body.is_failed =>
          \A chunks \in StreamBodies, fails \in BOOLEAN :
              poll_next(receive(validating_body, chunks, fails))
                = [item |-> Some(Err("polling from failed stream")),
                   stream |-> receive(validating_body, chunks, fails)]

\* a body that does not have the advertised SHA-1 has been read to its end,
\* and the consumer has polled twice more
C24_Witness ==
    /\ response.sha1.present
    /\ ~upstream_body.fails /\ ~Sha1Matches
    /\ Len(upstream_body.chunks) >= 1
    /\ Len(Tail_received) = 3
    /\ Tail_received[1] = Some(Err("failed validation"))
    /\ validating_body.is_failed

\* C25: when the response advertises both a SHA-1 and an MD5, both
\* validators are attached and fed every chunk, and the stream ends
\* successfully exactly when both pass; a mismatch of either one alone gives
\* the 'failed validation' error in place of the end.
C25_AllValidatorsMustPass ==
    (response.sha1.present /\ response.md5.present) =>
        /\ Len(validating_body.validator) = 2
        /\ \A i \in DOMAIN validating_body.validator :
              validating_body.validator[i].hasher =
                  SubSeq(upstream_body.chunks, 1,
                         IF Len(received) < Len(upstream_body.chunks)
                         THEN Len(received) ELSE Len(upstream_body.chunks))
        /\ (~upstream_body.fails /\ Tail_received # << >>) =>
              Tail_received[1] = IF Sha1Matches /\ Md5Matches THEN None
                                 ELSE Some(Err("failed validation"))

\* the body has the advertised SHA-1 but not the advertised MD5, and the
\* consumer was given the error after the last chunk
C25_Witness ==
    /\ response.sha1.present /\ response.md5.present
    /\ Sha1Matches /\ ~Md5Matches
    /\ ~upstream_body.fails
    /\ Len(upstream_body.chunks) = 2
    /\ Tail_received # << >>
    /\ Tail_received[1] = Some(Err("failed validation"))

(***************************************************************************)
(* Properties of the digest headers                                        *)
(***************************************************************************)
\* the header the expected SHA-1 is to be taken from: the first present of
\* x-checksum-sha1, x-goog-meta-checksum-sha1, etag
SelectedSha1Header ==
    IF "x-checksum-sha1" \in DOMAIN response_headers THEN "x-checksum-sha1"
    ELSE IF "x-goog-meta-checksum-sha1" \in DOMAIN response_headers
    THEN "x-goog-meta-checksum-sha1"
    ELSE IF "etag" \in DOMAIN response_headers THEN "etag"
    ELSE "none"
\* its value, without the first and the last character when it has 42
SelectedSha1Text ==
    LET value == response_headers[SelectedSha1Header]
    IN  IF Len(value) = 42 THEN SubSeq(value, 2, 41) ELSE value
\* 40 hex digits
IsHex40(text) ==
    /\ Len(text) = 40
    /\ \A i \in 1..40 :
          text[i] \in Digits \cup {"a", "b", "c", "d", "e", "f", "A", "B", "C", "D", "E", "F"}
\* the MD5 headers do not make downloader.get fail
Md5HeaderIsFine ==
    LET md5 == md5_string(response_headers)
    IN  IsSome(md5) => from_hex_bytes(Unwrap(md5), 16).ok

\* C26: the expected SHA-1 is taken from the first header present in the
\* order x-checksum-sha1, x-goog-meta-checksum-sha1, etag, whatever the
\* headers after it hold; a value of length 42 loses its first and its last
\* character before it is decoded; when the selected value is not 40 hex
\* digits downloader.get fails, and it neither takes a later header instead
\* nor returns a Blob without the SHA-1 validator.
C26_Sha1HeaderSelection ==
    downloaded # None =>
        LET got == Unwrap(downloaded)
        IN  IF SelectedSha1Header = "none"
            THEN /\ Md5HeaderIsFine => got.ok
                 /\ got.ok => Unwrap(got.val).sha1 = None
            ELSE IF IsHex40(SelectedSha1Text)
            THEN /\ Md5HeaderIsFine => got.ok
                 /\ got.ok =>
                       /\ Unwrap(got.val).sha1
                            = Some(Unwrap(from_hex_bytes(SelectedSha1Text, 20).val))
                       /\ Unwrap(got.val).validators[1]
                            = Sha1HttpBodyValidator_new(Unwrap(Unwrap(got.val).sha1))
            ELSE ~got.ok

\* x-checksum-sha1 is absent, x-goog-meta-checksum-sha1 holds a quoted
\* SHA-1, the etag is no SHA-1, and downloader.get has returned a Blob
C26_Witness ==
    /\ downloaded # None
    /\ Unwrap(downloaded).ok
    /\ SelectedSha1Header = "x-goog-meta-checksum-sha1"
    /\ Len(response_headers["x-goog-meta-checksum-sha1"]) = 42
    /\ "etag" \in DOMAIN response_headers
    /\ ~IsHex40(response_headers["etag"])
    /\ Len(response_headers["etag"]) # 42
    /\ IsSome(Unwrap(Unwrap(downloaded).val).sha1)

(***************************************************************************)
(* Properties of paths.rs                                                  *)
(***************************************************************************)
\* C27: for every reference R that as_maven_path formats,
\* parse_maven_path(as_maven_path(R)) succeeds and yields R.
C27_FormatThenParseIsIdentity ==
    (maven_input.kind = "ref" /\ maven_parsed # None) =>
        Unwrap(maven_parsed) = Ok(maven_input.ref)

\* G/A/base/A-base[-C]-timestamp[-build].ext
SnapshotPath(r) ==
    LET base == r.coordinates.version.version
    IN  replace(r.coordinates.group_id, ".", "/") \o << "/" >>
            \o r.coordinates.artifact_id \o << "/" >>
            \o base \o << "/" >>
            \o r.coordinates.artifact_id \o << "-" >> \o base
            \o (IF r.classifier.kind = "Classified"
                THEN << "-" >> \o r.classifier.classifier ELSE << >>)
            \o << "-" >> \o r.coordinates.version.timestamp
            \o (IF r.coordinates.version.build_number # None
                THEN << "-" >> \o to_string(Unwrap(r.coordinates.version.build_number))
                ELSE << >>)
            \o r.file_extension

\* C28: as_maven_path formats a snapshot reference as
\* G/A/base/A-base[-C]-timestamp[-build].ext, with the base (which ends in
\* -SNAPSHOT) once in the file name; (org.foo, bar, Snapshot(1.2.3-SNAPSHOT,
\* 20240115.101530, 7), Unclassified, .jar) is formatted as
\* org/foo/bar/1.2.3-SNAPSHOT/bar-1.2.3-SNAPSHOT-20240115.101530-7.jar.
C28_SnapshotPathFormat ==
    (/\ maven_input.kind = "ref"
     /\ maven_input.ref.coordinates.version.kind = "Snapshot"
     /\ maven_path # None) =>
        /\ Unwrap(maven_path) = SnapshotPath(maven_input.ref)
        /\ maven_input.ref =
              MavenArtifactRef(
                  MavenCoordinates(<< "o", "r", "g", ".", "f", "o", "o" >>, << "b", "a", "r" >>,
                                   Snapshot(<< "1", ".", "2", ".", "3", "-", "S", "N", "A", "P", "S", "H", "O", "T" >>, << "2", "0", "2", "4", "0", "1", "1", "5", ".", "1", "0", "1", "5", "3", "0" >>, Some(7))),
                  Unclassified, << ".", "j", "a", "r" >>)
            => Unwrap(maven_path) =
                 << "o", "r", "g", "/", "f", "o", "o", "/", "b", "a", "r", "/", "1", ".", "2", ".", "3", "-", "S", "N", "A", "P", "S", "H", "O", "T", "/", "b", "a", "r", "-", "1", ".", "2", ".", "3", "-", "S", "N", "A", "P", "S", "H", "O", "T", "-", "2", "0", "2", "4", "0", "1", "1", "5", ".", "1", "0", "1", "5", "3", "0", "-", "7", ".", "j", "a", "r" >>

\* C29: parse_maven_path accepts every well-formed repository path
\* <group-segments>/<artifactId>/<version>/<artifactId>-<version>[-classifier].<ext>
\* and returns its group (slashes turned into dots), artifact id, version,
\* classifier and extension; a path with fewer than three '/' is rejected.
C29_ParseAcceptsWellFormedPaths ==
    /\ (maven_input.kind = "path" /\ maven_parsed # None) =>
          Unwrap(maven_parsed) = Ok(maven_input.ref)
    /\ (maven_input.kind = "short path" /\ maven_parsed # None) =>
          ~Unwrap(maven_parsed).ok

\* timestamp: 8 digits, a dot, 6 digits
IsTimestamp(t) ==
    /\ Len(t) = 15
    /\ \A i \in 1..8 : t[i] \in Digits
    /\ t[9] = "."
    /\ \A i \in 10..15 : t[i] \in Digits
\* buildNumber: a non-negative integer
IsBuildNumber(b) == b # << >> /\ \A i \in 1..Len(b) : b[i] \in Digits
\* the ways to read tail as [-classifier]-timestamp[-buildNumber]
TailReadings(tail) ==
    { reading \in [classifier_end : 0..Len(tail), timestamp_end : 0..Len(tail)] :
        /\ reading.timestamp_end = reading.classifier_end + 16
        /\ tail[reading.classifier_end + 1] = "-"
        /\ IsTimestamp(slice(tail, reading.classifier_end + 1, reading.timestamp_end))
        /\ \/ reading.classifier_end = 0
           \/ reading.classifier_end > 1 /\ tail[1] = "-"
        /\ \/ reading.timestamp_end = Len(tail)
           \/ /\ reading.timestamp_end < Len(tail)
              /\ tail[reading.timestamp_end + 1] = "-"
              /\ IsBuildNumber(slice_from(tail, reading.timestamp_end + 1)) }
\* what the file name says under a reading
TailResult(version_string, tail, extension, reading) ==
    ParseFilenameResult(
        Snapshot(version_string,
                 slice(tail, reading.classifier_end + 1, reading.timestamp_end),
                 IF reading.timestamp_end = Len(tail) THEN None
                 ELSE Some(DecimalValue(slice_from(tail, reading.timestamp_end + 1)))),
        IF reading.classifier_end = 0 THEN None
        ELSE Some(slice(tail, 1, reading.classifier_end)),
        extension)

\* C30: for a version string ending in -SNAPSHOT, parse_maven_filename
\* accepts a file name exactly when what follows the version string reads
\* as [-classifier]-timestamp[-buildNumber], the timestamp being the
\* trailing one, and returns those parts; every other tail is rejected.
C30_SnapshotFilenameGrammar ==
    (maven_input.kind = "file name" /\ maven_parsed # None) =>
        LET f == maven_input.file
            readings == TailReadings(f.tail)
        IN  /\ Unwrap(maven_parsed).ok <=> readings # {}
            /\ Unwrap(maven_parsed).ok =>
                  \E reading \in readings :
                      Unwrap(Unwrap(maven_parsed).val) =
                          TailResult(f.version_string, f.tail, f.extension, reading)

\* C31: parse_maven_filename rejects every file name that does not consist
\* of the artifact id, then '-', then the version string: a name that is
\* too short, starts with another artifact id, has another character than
\* '-' after the artifact id, or another version segment.
C31_RejectsWrongPrefix ==
    (maven_input.kind = "raw file name" /\ maven_parsed # None) =>
        LET f == maven_input.file
        IN  ~starts_with(f.file_name, f.artifact_id \o << "-" >> \o f.version_string)
                => ~Unwrap(maven_parsed).ok

\* C32: a version string that does not end in -SNAPSHOT is parsed as
\* Release(versionString): nothing between it and the extension gives no
\* classifier, '-' and more gives the rest as classifier, anything else is
\* rejected; so for -snapshot in lower case and for -SNAPSHOT before the
\* end of the version string.
C32_NonSnapshotIsRelease ==
    (maven_input.kind = "release file name" /\ maven_parsed # None) =>
        LET f == maven_input.file
        IN  Unwrap(maven_parsed) =
                IF f.tail = << >>
                THEN Ok(ParseFilenameResult(Release(f.version_string), None, f.extension))
                ELSE IF Head(f.tail) = "-"
                THEN Ok(ParseFilenameResult(Release(f.version_string),
                                            Some(Tail(f.tail)), f.extension))
                ELSE Err("not a valid maven file name - invalid classifier format")

(***************************************************************************)
(* Properties of the locks and the retry window of the metadata store      *)
(***************************************************************************)
\* C35: in the metadata store no operation asks for the write guard of an
\* index while it holds a read guard: decide_get_artifact never comes to
\* request failed_downloads.write() under its own read guards, and no
\* handler is blocked on a lock it holds itself.
C35_NoWriteUnderOwnReadGuard ==
    \A p \in Procs :
        /\ pc[p] = "decide" =>
              decide_get_artifact(local_artifacts, failed_downloads, artifact_ref[p], now)
                  # WriteWhileRead
        /\ pc[p] # "deadlocked"
        /\ p \notin readers["local_artifacts"] \cup readers["failed_downloads"]

\* C36: for a reference with a failure record and no local entry,
\* decide_get_artifact returns Fail exactly while the time since the
\* failure is at most the retry window of 300 s; any longer time, between
\* 300 and 301 seconds too, has the record treated as expired.  A clock
\* that reads earlier than the failure counts as no time passed.
C36_FailExactlyWithinWindow ==
    [][\A p \in Procs :
          (/\ Leaves(p, "decide")
           /\ artifact_ref[p] \notin DOMAIN local_artifacts
           /\ artifact_ref[p] \in DOMAIN failed_downloads) =>
              LET failure_time == failed_downloads[artifact_ref[p]]
                  elapsed == IF now >= failure_time THEN now - failure_time ELSE 0
              IN  (decision'[p] = Fail /\ pc'[p] = "fail")
                      <=> elapsed <= RetryWindowSecs * UnitsPerSec
      ]_vars

(***************************************************************************)
(* Properties of the pruning of empty directories                          *)
(***************************************************************************)
\* the entries directly below the directory d
Children(tree, d) ==
    { x \in DOMAIN tree : Len(x) = Len(d) + 1 /\ SubSeq(x, 1, Len(d)) = d }
\* the directories fsck deletes with all they hold: temp directories, and
\* blob directories of unreferenced keys, older than the grace period
OrphanDirs(tree, grace_period) ==
    { q \in TempDirs(tree) \cup { b \in BlobDirs(tree) : file_name(b).uuid \notin referenced } :
        now - tree[q].created > grace_period }

\* C38: what an fsck run removes is either part of an orphaned temp
\* directory or unreferenced blob directory that it deletes, or a directory
\* left without any entry once its children were visited: every entry it
\* had was a directory that the run removed.  A directory with a file in
\* it, or with a sub-directory that stays, stays; a file goes only with the
\* orphan directory it is in.
C38_PrunesOnlyEmptyDirectories ==
    [][IsFsckRun =>
          \A path \in DOMAIN fs \ DOMAIN fs' :
              \/ /\ ~fsck_log'.log_only
                 /\ \E q \in OrphanDirs(fs, fsck_log'.grace_period) : IsPrefix(q, path)
              \/ /\ fs[path].is_dir
                 /\ \A x \in Children(fs, path) : fs[x].is_dir /\ x \notin DOMAIN fs'
      ]_vars

\* fsck has deleted an orphaned temp directory with its files and then
\* pruned the shard directory, which that left without an entry
C38_Witness ==
    /\ fsck_log.runs > 0
    /\ ~fsck_log.log_only
    /\ \E path \in fsck_log.removed :
          /\ file_name(path).rest \in {".inserting", ".deleting"}
          /\ \E name \in {DataName, MetadataName} : push(path, name) \in fsck_log.removed
    /\ << ShardName >> \in fsck_log.removed

(***************************************************************************)
(* Properties of get_artifact_md5 and get_artifact_sha1                    *)
(***************************************************************************)
\* C39: whatever get_artifact returns, get_artifact_md5 and
\* get_artifact_sha1 do not panic on a missing digest: a blob returned
\* with Ok was read from the blob store and carries both digests, those of
\* the bytes it yields, and these are what the two functions return; an
\* error of get_artifact is passed on.  A call that returns Ok through the
\* Download branch has stored the blob and registered its key.
C39_DigestsOfReturnedBlob ==
    [][\A p \in Procs :
          (pc[p] # "idle" /\ pc'[p] = "idle") =>
              /\ result'[p].kind = "ok" =>
                    LET blob == Unwrap(result'[p].blob)
                    IN  /\ get_artifact_md5(result'[p]) =
                              [kind |-> "ok", digest |-> Some(Md5Digest(blob.data))]
                        /\ get_artifact_sha1(result'[p]) =
                              [kind |-> "ok", digest |-> Some(Sha1Digest(blob.data))]
              /\ result'[p].kind = "err" =>
                    /\ get_artifact_md5(result'[p]).kind = "err"
                    /\ get_artifact_sha1(result'[p]).kind = "err"
              /\ (result'[p].kind = "ok" /\ pc[p] = "get") =>
                    /\ map_get(local_artifacts, artifact_ref[p]) # None
                    /\ key[p] \in DOMAIN data
                    /\ result'[p].blob = Some(Blob(data[key[p]].bytes,
                                                   Some(data[key[p]].md5),
                                                   Some(data[key[p]].sha1)))
      ]_vars

\* a call has returned a blob, after a call for a reference that was not
\* cached went through the Download branch, and both digest functions
\* return a digest for it
C39_Witness ==
    \E p \in Procs :
        /\ result[p].kind = "ok"
        /\ pc[p] = "idle"
        /\ succeeded # {}
        /\ get_artifact_md5(result[p]).kind = "ok"
        /\ get_artifact_sha1(result[p]).kind = "ok"

(***************************************************************************)
(* Properties of the plugin operations of the metadata store               *)
(***************************************************************************)
\* the call i registers or unregisters the plugin artifact_id of group_id
Concerns(i, group_id, artifact_id) ==
    /\ plugin_calls[i].op \in {"register_plugin", "unregister_plugin"}
    /\ plugin_calls[i].group_id = group_id
    /\ plugin_calls[i].artifact_id = artifact_id

\* the last of the calls before call i that concern the plugin, if there is one
LastConcerning(i, group_id, artifact_id) ==
    LET concerning == { k \in 1..(i - 1) : Concerns(k, group_id, artifact_id) }
    IN  IF concerning = {} THEN None
        ELSE Some(plugin_calls[CHOOSE k \in concerning : \A l \in concerning : l <= k])

\* when call i is made, the plugin is registered: the last call that concerns it
\* registered it
RegisteredBefore(i, group_id, artifact_id) ==
    LET last == LastConcerning(i, group_id, artifact_id)
    IN  IsSome(last) /\ Unwrap(last).op = "register_plugin"

\* the list has exactly one entry for each plugin of the group that is registered
\* when call i is made, and the entry is the metadata registered last
ListsRegisteredBefore(list, i, group_id) ==
    LET ids == { a \in ArtifactIds : RegisteredBefore(i, group_id, a) }
    IN  /\ Len(list) = Cardinality(ids)
        /\ \A a \in ids :
              \E j \in 1..Len(list) :
                  list[j] = Unwrap(Unwrap(LastConcerning(i, group_id, a)).plugin_metadata)

\* C33: register_plugin(G, meta) returns Inserted exactly when no plugin with
\* meta's artifact id is registered under G when the call is made, and Updated
\* otherwise; whatever register and unregister calls went before, get_plugins(G)
\* returns exactly one entry for each artifact id registered under G at that
\* time, which is the metadata registered for it last.  The calls for other
\* groups do not enter into what the call returns.
C33_RegisterAndList ==
    /\ \A i \in 1..Len(plugin_calls) :
          LET call == plugin_calls[i]
          IN  /\ call.op = "register_plugin" =>
                    call.returned =
                        Ok(IF RegisteredBefore(i, call.group_id, call.artifact_id)
                           THEN "Updated" ELSE "Inserted")
              /\ call.op = "get_plugins" =>
                    /\ call.returned.ok
                    /\ ListsRegisteredBefore(Unwrap(call.returned.val), i, call.group_id)
    /\ \A group_id \in GroupIds :
          \A returned \in get_plugins(plugins, group_id) :
              /\ returned.ok
              /\ ListsRegisteredBefore(Unwrap(returned.val), Len(plugin_calls) + 1, group_id)

\* a plugin was registered and registered again with another name, which
\* returned Updated, a plugin of the other group was registered in between, and
\* get_plugins of the first group then returned the second metadata alone
C33_Witness ==
    /\ Len(plugin_calls) = 4
    /\ plugin_calls[1].op = "register_plugin"
    /\ plugin_calls[2].op = "register_plugin"
    /\ plugin_calls[2].group_id # plugin_calls[1].group_id
    /\ plugin_calls[3].op = "register_plugin"
    /\ plugin_calls[3].group_id = plugin_calls[1].group_id
    /\ plugin_calls[3].artifact_id = plugin_calls[1].artifact_id
    /\ plugin_calls[3].plugin_metadata # plugin_calls[1].plugin_metadata
    /\ plugin_calls[3].returned = Ok("Updated")
    /\ plugin_calls[4].op = "get_plugins"
    /\ plugin_calls[4].group_id = plugin_calls[1].group_id
    /\ plugin_calls[4].returned = Ok(<< Unwrap(plugin_calls[3].plugin_metadata) >>)

\* no call between the calls i and j registers the plugin
NotRegisteredBetween(i, j, group_id, artifact_id) ==
    \A k \in (i + 1)..(j - 1) :
        ~(Concerns(k, group_id, artifact_id) /\ plugin_calls[k].op = "register_plugin")

\* C34: unregister_plugin(G, A) returns true if and only if a plugin with
\* artifact id A was registered under G when the call was made; whatever it
\* returned, the plugin is not registered afterwards: until it is registered
\* again, an unregister_plugin(G, A) returns false, get_plugins(G) has no entry
\* for A, and the register_plugin that registers it again returns Inserted.
C34_UnregisterRemoves ==
    \A i \in 1..Len(plugin_calls) :
        LET call == plugin_calls[i]
        IN  call.op = "unregister_plugin" =>
                /\ call.returned = Ok(RegisteredBefore(i, call.group_id, call.artifact_id))
                /\ \A j \in (i + 1)..Len(plugin_calls) :
                      NotRegisteredBetween(i, j, call.group_id, call.artifact_id) =>
                          LET later == plugin_calls[j]
                          IN  /\ (/\ later.op = "unregister_plugin"
                                  /\ later.group_id = call.group_id
                                  /\ later.artifact_id = call.artifact_id)
                                 => later.returned = Ok(FALSE)
                              /\ (/\ later.op = "register_plugin"
                                  /\ later.group_id = call.group_id
                                  /\ later.artifact_id = call.artifact_id)
                                 => later.returned = Ok("Inserted")
                              /\ (/\ later.op = "get_plugins"
                                  /\ later.group_id = call.group_id)
                                 => \A n \in 1..Len(Unwrap(later.returned.val)) :
                                        Unwrap(later.returned.val)[n].artifact_id
                                            # call.artifact_id
                /\ \A returned \in get_plugins(plugins, call.group_id) :
                      NotRegisteredBetween(i, Len(plugin_calls) + 1,
                                           call.group_id, call.artifact_id) =>
                          \A n \in 1..Len(Unwrap(returned.val)) :
                              Unwrap(returned.val)[n].artifact_id # call.artifact_id

\* a plugin was registered, unregistered with true, unregistered again with
\* false and then registered with Inserted
C34_Witness ==
    /\ Len(plugin_calls) = 4
    /\ plugin_calls[1].op = "register_plugin"
    /\ \A i \in 2..4 :
          /\ plugin_calls[i].group_id = plugin_calls[1].group_id
          /\ plugin_calls[i].artifact_id = plugin_calls[1].artifact_id
    /\ plugin_calls[2].op = "unregister_plugin"
    /\ plugin_calls[2].returned = Ok(TRUE)
    /\ plugin_calls[3].op = "unregister_plugin"
    /\ plugin_calls[3].returned = Ok(FALSE)
    /\ plugin_calls[4].op = "register_plugin"
    /\ plugin_calls[4].returned = Ok("Inserted")

(***************************************************************************)
(* Properties of get_artifact_metadata                                     *)
(***************************************************************************)
\* the versions recorded for the artifact the call asks for; none when the
\* group or the artifact is unknown
RecordedVersions ==
    LET q == Unwrap(metadata_query)
    IN  IF /\ q.group_id \in DOMAIN artifact_versions
           /\ q.artifact_id \in DOMAIN artifact_versions[q.group_id]
        THEN artifact_versions[q.group_id][q.artifact_id]
        ELSE << >>

====
